---- MODULE Spec2Model ----
(***************************************************************************)
(* Model of gosible's SSH task facade (internal/pkg/sshtask/sshtask.go):   *)
(* Task.Start and its three goroutines (BatchRun, the task-timeout timer,  *)
(* HandleOutput on the caller's goroutine), host resolution (getAllHosts,  *)
(* ListHosts) and the worker pool of the batch dispatcher that BatchRun    *)
(* drives.  Go channel semantics are kept: a send on a closed channel and  *)
(* a second close both panic; a panicking goroutine runs its deferred      *)
(* calls, and then the run-time ends the process.                          *)
(***************************************************************************)
EXTENDS Integers, Sequences, FiniteSets, TLC

\* ------------------------------------------------------------------------
\* Bounds of the model
\* ------------------------------------------------------------------------
\* largest run.concurrency
MaxConc == 2
\* largest number of local files given to push
MaxFiles == 2

\* ------------------------------------------------------------------------
\* Values
\* ------------------------------------------------------------------------
Nil == "nil"

CommandTask == "CommandTask"
ScriptTask == "ScriptTask"
PushTask == "PushTask"
FetchTask == "FetchTask"
TaskTypes == {CommandTask, ScriptTask, PushTask, FetchTask}

SuccessIdentifier == "Success"
FailedIdentifier == "Failed"

ErrNeedExecute == "need flag '-e/--execute' or '-l/--hosts.list'"
ErrNeedFiles == "need flag '-f/--files' or '-l/--hosts.list'"
ErrNeedDest == "need flag '-d/--dest-path' or '-l/--hosts.list'"
helpErr == "need target hosts"
ErrInvalidPattern == "invalid host pattern"
ErrInventoryParse == "inventory parse error"
ErrMkdir == "mkdir: permission denied"
ErrTerminal == "get password from terminal failed"

\* task timeouts (seconds) a run is configured with; 0 switches the timer off
TaskTimeouts == {0, 1}

\* positional host arguments a run may be given: none, a blank one, a name,
\* a bracket pattern, an unbalanced pattern, a blank one before a name, a
\* name that the pattern after it repeats
ArgHosts == {<<>>, <<" ">>, <<"h1">>, <<"h[1-2]">>, <<"h[">>,
             <<" ", "h1">>, <<"h1", "h[1-2]">>}

\* inventory files a run may name ("" = no inventory)
InventoryFiles == {"", "empty.ini", "hosts.ini", "broken.ini", "locked.ini"}

\* ------------------------------------------------------------------------
\* Host resolution
\* ------------------------------------------------------------------------
\* strings.TrimSpace on the argument strings of the model
TrimSpace(s) ==
    CASE s = " " -> ""
      [] s = "  " -> ""
      [] s = " h1 " -> "h1"
      [] s = "k1 " -> "k1"
      [] s = " k1 " -> "k1"
      [] s = " k2 " -> "k2"
      [] s = " filepw " -> "filepw"
      [] s = "#!/bin/sh echo k1 " -> "#!/bin/sh echo k1"
      [] OTHER -> s

\* expandhost.PatternToHosts: a bracket range expands to its members in
\* order, an unbalanced bracket is an error, a plain name is itself
PatternToHosts(p) ==
    CASE p = "h[1-2]" -> [err |-> Nil, hosts |-> <<"h1", "h2">>]
      [] p = "h[" -> [err |-> ErrInvalidPattern, hosts |-> <<>>]
      [] OTHER -> [err |-> Nil, hosts |-> <<p>>]

\* a host entry that carries only the name (alias and address are the name)
NamedHost(name) == [Alias |-> name, Host |-> name]

\* the parsed content of an inventory file: the host lines, and for every
\* group section the aliases listed in it and the sub-groups its :children
\* section names. In groups.ini h1 has an address of its own, the group dc
\* has only sub-groups, and h2 is the name of a host and of a group.
\* passwords holds the password= of the hosts that have one: in locked.ini
\* h1 has a password encrypted with the vault password k2.
Inventory(file) ==
    CASE file = "hosts.ini" ->
            [parseErr |-> Nil,
             hosts |-> <<NamedHost("h1"), NamedHost("h2")>>,
             groups |-> ("web" :> <<"h1", "h2">>),
             children |-> ("web" :> <<>>),
             passwords |-> [a \in {} |-> ""]]
      [] file = "locked.ini" ->
            [parseErr |-> Nil,
             hosts |-> <<NamedHost("h1")>>,
             groups |-> [g \in {} |-> <<>>],
             children |-> [g \in {} |-> <<>>],
             passwords |-> ("h1" :> "enc(hpw,k2)")]
      [] file = "groups.ini" ->
            [parseErr |-> Nil,
             hosts |-> <<[Alias |-> "h1", Host |-> "10.0.0.1"],
                         NamedHost("h2"), NamedHost("h3")>>,
             groups |-> ("web" :> <<"h1", "h2">> @@ "db" :> <<"h3">>
                            @@ "h2" :> <<"h3">> @@ "dc" :> <<>>),
             children |-> ("web" :> <<>> @@ "db" :> <<>>
                            @@ "h2" :> <<>> @@ "dc" :> <<"web", "db">>),
             passwords |-> [a \in {} |-> ""]]
      [] file = "broken.ini" ->
            [parseErr |-> ErrInventoryParse,
             hosts |-> <<>>,
             groups |-> [g \in {} |-> <<>>],
             children |-> [g \in {} |-> <<>>],
             passwords |-> [a \in {} |-> ""]]
      [] OTHER ->
            [parseErr |-> Nil,
             hosts |-> <<>>,
             groups |-> [g \in {} |-> <<>>],
             children |-> [g \in {} |-> <<>>],
             passwords |-> [a \in {} |-> ""]]

\* inventory.GetAllHosts
GetAllHosts(inv) == inv.hosts

\* inventory.GetHostByAlias: found is FALSE for the nil result
GetHostByAlias(inv, alias) ==
    LET idx == {i \in 1..Len(inv.hosts) : inv.hosts[i].Alias = alias}
    IN  IF idx = {} THEN [found |-> FALSE, host |-> NamedHost(alias)]
        ELSE [found |-> TRUE,
              host |-> inv.hosts[CHOOSE i \in idx : \A j \in idx : i <= j]]

\* the aliases of a group: its own, then those of its sub-groups in order
RECURSIVE groupAliases(_, _)
groupAliases(inv, name) ==
    LET sub == inv.children[name]
        F[i \in 0..Len(sub)] ==
            IF i = 0 THEN inv.groups[name] ELSE F[i - 1] \o groupAliases(inv, sub[i])
    IN  F[Len(sub)]

\* inventory.GetHostsByGroup: found is FALSE for the nil result
GetHostsByGroup(inv, name) ==
    IF name \in DOMAIN inv.groups
    THEN LET aliases == groupAliases(inv, name)
         IN  [found |-> TRUE,
              hosts |-> [i \in 1..Len(aliases) |-> GetHostByAlias(inv, aliases[i]).host]]
    ELSE [found |-> FALSE, hosts |-> <<>>]

RECURSIVE deDuplicateFrom(_, _, _)
deDuplicateFrom(hosts, keys, set) ==
    IF hosts = <<>> THEN set
    ELSE LET v == Head(hosts)
         IN  IF v \notin keys
             THEN deDuplicateFrom(Tail(hosts), keys \cup {v}, Append(set, v))
             ELSE deDuplicateFrom(Tail(hosts), keys, set)

deDuplicate(hosts) == deDuplicateFrom(hosts, {}, <<>>)

\* deduplication that lets a later entry of an alias replace the one kept
RECURSIVE deDuplSSHHostsLast(_, _, _)
deDuplSSHHostsLast(hosts, keys, set) ==
    IF hosts = <<>> THEN set
    ELSE LET v == Head(hosts)
         IN  IF v.Alias \notin keys
             THEN deDuplSSHHostsLast(Tail(hosts), keys \cup {v.Alias}, Append(set, v))
             ELSE deDuplSSHHostsLast(Tail(hosts), keys,
                    [i \in 1..Len(set) |-> IF set[i].Alias = v.Alias THEN v ELSE set[i]])

RECURSIVE deDuplSSHHostsFrom(_, _, _)
deDuplSSHHostsFrom(hosts, keys, set) ==
    IF hosts = <<>> THEN set
    ELSE LET v == Head(hosts)
         IN  IF v.Alias \notin keys
             THEN deDuplSSHHostsFrom(Tail(hosts), keys \cup {v.Alias}, Append(set, v))
             ELSE deDuplSSHHostsFrom(Tail(hosts), keys, set)

deDuplSSHHosts(hosts) == deDuplSSHHostsFrom(hosts, {}, <<>>)

\* inventory.DeDuplHosts
DeDuplHosts(hosts) == deDuplSSHHostsFrom(hosts, {}, <<>>)

\* selection that looks for a host of the name before a group of the name
hostsOfNamesAliasFirst(inv, names) ==
    LET pick(name) ==
            LET byGroup == GetHostsByGroup(inv, name)
                byAlias == GetHostByAlias(inv, name)
            IN  IF byAlias.found THEN <<byAlias.host>>
                ELSE IF byGroup.found THEN byGroup.hosts
                ELSE <<NamedHost(name)>>
        F[i \in 0..Len(names)] ==
            IF i = 0 THEN <<>> ELSE F[i - 1] \o pick(names[i])
    IN  F[Len(names)]

\* the hosts the names expanded from one inventory-mode argument select
hostsOfNames(inv, names) ==
    LET pick(name) ==
            LET byGroup == GetHostsByGroup(inv, name)
                byAlias == GetHostByAlias(inv, name)
            IN  IF byGroup.found THEN byGroup.hosts
                ELSE IF byAlias.found THEN <<byAlias.host>>
                ELSE <<NamedHost(name)>>
        F[i \in 0..Len(names)] ==
            IF i = 0 THEN <<>> ELSE F[i - 1] \o pick(names[i])
    IN  F[Len(names)]

RECURSIVE inventoryArgHosts(_, _, _)
inventoryArgHosts(inv, args, fileHosts) ==
    IF args = <<>> THEN [err |-> Nil, hosts |-> fileHosts]
    ELSE LET hostList == PatternToHosts(Head(args))
         IN  IF hostList.err # Nil
             THEN [err |-> ErrInvalidPattern, hosts |-> <<>>]
             ELSE inventoryArgHosts(inv, Tail(args),
                                    fileHosts \o hostsOfNames(inv, hostList.hosts))

getInventoryHosts(file, args) ==
    LET inv == Inventory(file)
    IN  IF inv.parseErr # Nil THEN [err |-> inv.parseErr, hosts |-> <<>>]
        ELSE IF Len(args) = 0 THEN [err |-> Nil, hosts |-> GetAllHosts(inv)]
        ELSE inventoryArgHosts(inv, args, <<>>)

\* the loop over the positional arguments without an inventory (blank
\* arguments skipped, every other one trimmed and expanded), collecting the
\* expanded names in order
RECURSIVE expandArgHosts(_, _)
expandArgHosts(args, names) ==
    IF args = <<>> THEN [err |-> Nil, hosts |-> names]
    ELSE LET hostOrPattern == TrimSpace(Head(args))
         IN  IF hostOrPattern = ""
             THEN expandArgHosts(Tail(args), names)
             ELSE LET hostList == PatternToHosts(hostOrPattern)
                  IN  IF hostList.err # Nil
                      THEN [err |-> ErrInvalidPattern, hosts |-> <<>>]
                      ELSE expandArgHosts(Tail(args), names \o hostList.hosts)

ListHosts(file, args) ==
    IF file = ""
    THEN LET r == expandArgHosts(args, <<>>)
         IN  IF r.err # Nil THEN r
             ELSE [err |-> Nil, hosts |-> deDuplicate(r.hosts)]
    ELSE LET targetHosts == getInventoryHosts(file, args)
         IN  IF targetHosts.err # Nil THEN targetHosts
             ELSE LET d == DeDuplHosts(targetHosts.hosts)
                  IN  [err |-> Nil, hosts |-> [i \in 1..Len(d) |-> d[i].Alias]]

\* ------------------------------------------------------------------------
\* The vault password (internal/cmd/vault)
\* ------------------------------------------------------------------------
\* util.CheckErr and util.CobraCheckErrWithHelp: a non-nil error is printed
\* and the process exits with status 1 (TRUE), nil returns (FALSE)
utilCheckErr(e) == e # Nil

\* file modes (permission bits, decimal): 0644, 0600, 0755, 0650, 0601
FileModes == {420, 384, 493, 424, 385}

\* what auth.vault-pass-file may name: nothing, a password file, files whose
\* content or output is blank, a script without and with an executable
\* bit, files that cannot be inspected, read or run
NoVaultFile ==
    [path |-> "", statErr |-> FALSE, mode |-> 420, readErr |-> FALSE,
     content |-> "", execErr |-> FALSE, out |-> ""]

VaultFile(path, mode, content, out) ==
    [path |-> path, statErr |-> FALSE, mode |-> mode, readErr |-> FALSE,
     content |-> content, execErr |-> FALSE, out |-> out]

VaultPassFiles ==
    {NoVaultFile}
        \cup {VaultFile("vault.txt", m, c, " k2 ") :
                m \in FileModes, c \in {"k1 ", "  ", "", "#!/bin/sh echo k1 "}}
        \cup {VaultFile("vault.sh", m, "#!/bin/sh echo k1 ", o) :
                m \in FileModes, o \in {" k1 ", "", "  "}}
        \cup {[VaultFile("gone", 420, "k1 ", "") EXCEPT !.statErr = TRUE],
              [VaultFile("locked", 384, "k1 ", "") EXCEPT !.readErr = TRUE],
              [VaultFile("broken.sh", 493, "k1 ", "k1 ") EXCEPT !.execErr = TRUE]}

\* what may be typed at a terminal prompt; TermErr is a failed read
TermErr == "<read error>"
TermInputs == {"", "k1", " ", TermErr}

\* largest number of lines typed at the vault prompt
MaxTyped == 3

RECURSIVE TypedLines(_)
TypedLines(n) ==
    IF n = 0 THEN {<<>>}
    ELSE LET shorter == TypedLines(n - 1)
         IN  shorter \cup {Append(l, x) : l \in shorter, x \in TermInputs}

\* strings.HasPrefix(s, "#!/") on the strings of the model
HasShebang(s) == s = "#!/bin/sh echo k1"

\* isExectuable testing the owner's bit only
isExectuableOwner(file) == (file.mode \div 64) % 2 = 1

\* isExectuable: f.Mode().Perm()&0111 != 0
isExectuable(file) ==
    \/ (file.mode \div 64) % 2 = 1
    \/ (file.mode \div 8) % 2 = 1
    \/ file.mode % 2 = 1

\* getVaultPasswordFromFile: "fatal" stands for util.CheckErr ending the
\* process
getVaultPasswordFromFile(file) ==
    LET fatal == [status |-> "fatal", password |-> "", source |-> "none"]
    IN  IF file.path # ""
        THEN IF utilCheckErr(IF file.statErr THEN "stat failed" ELSE Nil) THEN fatal
             ELSE IF isExectuable(file)
             THEN IF file.execErr THEN fatal
                  ELSE LET vaultPass == TrimSpace(file.out)
                       IN  IF vaultPass = "" THEN fatal
                           ELSE [status |-> "ok", password |-> vaultPass,
                                 source |-> "exec"]
             ELSE IF utilCheckErr(IF file.readErr THEN "read failed" ELSE Nil) THEN fatal
             ELSE LET vaultPass == TrimSpace(file.content)
                  IN  IF vaultPass = "" THEN fatal
                      ELSE IF HasShebang(vaultPass) THEN fatal
                      ELSE [status |-> "ok", password |-> vaultPass, source |-> "file"]
        ELSE [status |-> "ok", password |-> "", source |-> "none"]

\* the prompt loop taking whatever is typed first
promptFirst(typed, prompts) ==
    IF typed = <<>>
    THEN [status |-> "waiting", password |-> "", source |-> "prompt",
          prompts |-> prompts + 1]
    ELSE IF Head(typed) = TermErr
    THEN [status |-> "fatal", password |-> "", source |-> "prompt",
          prompts |-> prompts + 1]
    ELSE [status |-> "ok", password |-> Head(typed), source |-> "prompt",
          prompts |-> prompts + 1]

\* the prompt loop of GetVaultPassword over the lines typed: a failed read
\* is fatal, an empty line prompts again, with nothing (more) typed the
\* prompt waits
RECURSIVE promptLoop(_, _)
promptLoop(typed, prompts) ==
    IF typed = <<>>
    THEN [status |-> "waiting", password |-> "", source |-> "prompt",
          prompts |-> prompts + 1]
    ELSE IF Head(typed) = TermErr
    THEN [status |-> "fatal", password |-> "", source |-> "prompt",
          prompts |-> prompts + 1]
    ELSE IF Head(typed) # ""
    THEN [status |-> "ok", password |-> Head(typed), source |-> "prompt",
          prompts |-> prompts + 1]
    ELSE promptLoop(Tail(typed), prompts + 1)

\* GetVaultPassword with the configured file and the lines typed at the
\* terminal
GetVaultPassword(file, typed) ==
    LET fromFile == getVaultPasswordFromFile(file)
    IN  IF fromFile.status = "fatal"
        THEN [status |-> "fatal", password |-> "", source |-> "none", prompts |-> 0]
        ELSE IF fromFile.password # ""
        THEN [status |-> "ok", password |-> fromFile.password,
              source |-> fromFile.source, prompts |-> 0]
        ELSE promptLoop(typed, 0)

\* ------------------------------------------------------------------------
\* Vault secrets (internal/pkg/aes, assignRealPass)
\* ------------------------------------------------------------------------
\* vault ciphertexts of the model with the text and the vault password
\* they were made from
Ciphertexts ==
    "enc(pw,k1)" :> [text |-> "pw", key |-> "k1"]
        @@ "enc(hpw,k1)" :> [text |-> "hpw", key |-> "k1"]
        @@ "enc(hpw,k2)" :> [text |-> "hpw", key |-> "k2"]
        @@ "enc(pp,k1)" :> [text |-> "pp", key |-> "k1"]

\* aes.IsAES256CipherText
IsAES256CipherText(s) == s \in DOMAIN Ciphertexts

ErrDecrypt == "decrypt failed"

\* aes.AES256Decode
AES256Decode(s, vaultPass) ==
    IF Ciphertexts[s].key = vaultPass
    THEN [err |-> Nil, text |-> Ciphertexts[s].text]
    ELSE [err |-> ErrDecrypt, text |-> ""]

\* what is typed at the vault prompt one time it is shown, and at a
\* login-password prompt
VaultTyped == {<<"k1">>, <<"", "k1">>, <<"k2">>}
LoginTyped == {"", "typed"}

\* assignRealPass: a ciphertext is decoded with the vault password, which
\* is asked from vault.GetVaultPassword there and then; fatal stands for
\* util.CheckErr ending the process, decrypt for the failed decoding
assignRealPass(pass, file, typed) ==
    IF IsAES256CipherText(pass)
    THEN LET vp == GetVaultPassword(file, typed)
             read == <<[source |-> vp.source, password |-> vp.password]>>
         IN  IF vp.status # "ok"
             THEN [fatal |-> TRUE, decrypt |-> FALSE, pass |-> pass, reads |-> <<>>]
             ELSE LET dec == AES256Decode(pass, vp.password)
                  IN  IF dec.err # Nil /\ utilCheckErr(dec.err)
                      THEN [fatal |-> TRUE, decrypt |-> TRUE,
                            pass |-> dec.text, reads |-> read]
                      ELSE [fatal |-> FALSE, decrypt |-> FALSE,
                            pass |-> dec.text, reads |-> read]
    ELSE [fatal |-> FALSE, decrypt |-> FALSE, pass |-> pass, reads |-> <<>>]

\* ------------------------------------------------------------------------
\* Host resolution of a run (Task.getAllHosts)
\* ------------------------------------------------------------------------
\* auth.vault-pass-file of the runs of the task: a file holding the vault
\* password k1
TaskVaultPassFile == VaultFile("vault.txt", 420, "k1 ", "")

\* the loop of getAllHosts over the inventory hosts: the error of the
\* first password assignRealPass cannot decrypt (Nil when there is none)
hostSecretsErr(file, hosts) ==
    LET passwords == Inventory(file).passwords
        failed == {i \in 1..Len(hosts) :
                     /\ hosts[i].Alias \in DOMAIN passwords
                     /\ assignRealPass(passwords[hosts[i].Alias],
                                       TaskVaultPassFile, <<>>).fatal}
    IN  IF failed = {} THEN Nil ELSE ErrDecrypt

\* getAllHosts: without an inventory the positional names with the
\* defaults; with one the selected hosts, each given its decoded secrets.
\* exit is the error util.CheckErr ends the process with inside the loop
\* over the inventory hosts (the call does not return then)
getAllHosts(file, args) ==
    IF file = ""
    THEN IF Len(args) # 0
         THEN LET r == expandArgHosts(args, <<>>)
              IN  IF r.err # Nil THEN [err |-> r.err, hosts |-> <<>>, exit |-> Nil]
                  ELSE [err |-> Nil, exit |-> Nil,
                        hosts |-> deDuplSSHHosts(
                                    [i \in 1..Len(r.hosts) |-> NamedHost(r.hosts[i])])]
         ELSE [err |-> helpErr, hosts |-> <<>>, exit |-> Nil]
    ELSE LET targetHosts == getInventoryHosts(file, args)
         IN  IF targetHosts.err # Nil THEN [err |-> targetHosts.err, hosts |-> <<>>, exit |-> Nil]
             ELSE IF Len(targetHosts.hosts) = 0
             THEN [err |-> helpErr, hosts |-> <<>>, exit |-> Nil]
             ELSE LET hosts == DeDuplHosts(targetHosts.hosts)
                      secretsErr == hostSecretsErr(file, hosts)
                  IN  IF utilCheckErr(secretsErr)
                      THEN [err |-> Nil, hosts |-> <<>>, exit |-> secretsErr]
                      ELSE [err |-> Nil, hosts |-> hosts, exit |-> Nil]

\* ------------------------------------------------------------------------
\* State
\* ------------------------------------------------------------------------
VARIABLES
    \* Task fields set before Start (NewTask and the Set... methods)
    id, taskType, command, scriptFile, pushFiles, fetchFiles, dstDir, argHosts,
    \* configFlags: Hosts.List, Hosts.Inventory, Timeout.Task, Run.Concurrency,
    \* Run.Sudo
    hostsList, inventoryFile, taskTimeout, concurrency, sudo,
    \* Task fields written by BatchRun
    err, authAssembled, sshClient, allHosts, resolved, listed,
    \* the two channels of the task
    detailOutput, taskOutput,
    \* the BatchRun goroutine: position, loop variable v and its counters
    pcB, v, successCount, failedCount,
    \* the dispatcher's worker pool: next queue index, workers, open sessions
    nextHost, workers, sessions,
    \* the timeout goroutine
    pcT,
    \* the caller's goroutine (HandleOutput, then the command's CheckErr)
    pcH, checkErr,
    \* HandleOutput's loop variable res, the directories that exist on the
    \* client, and the error util.CheckErr ended the process with
    res, dirs, exitErr,
    \* the log sink: per-host records, summary records, task-timeout warning
    logged, summaries, warnings,
    \* the process: panic that ended it, normal exit
    panicked, exited,
    \* history: results BatchRun took from the dispatcher, results it handed
    \* to detailOutput
    delivered, sent,
    \* the push command around the task: position, the files flag, index of
    \* the next file to compress, archives created, archives on disk, the
    \* microsecond clock, what task.Start ended with
    cmdPc, files, nextFile, zipFiles, disk, clock, nextZip, removeWarnings,
    \* one call of a function of the program: the function with its
    \* arguments, and what it returned
    call, ret,
    \* authentication assembly of one run: the configuration (auth.*,
    \* run.sudo, SSH_AUTH_SOCK, the inventory's hosts), the position in
    \* NewTask / setDefaultSSHAuthMethods / getAllHosts, Task.defaultPass,
    \* Task.defaultSSHAuthMethods, the index of the inventory host worked
    \* on and the hosts built so far
    authCfg, aPc, defaultPass, defaultSSHAuthMethods, hIdx, outHosts,
    \* history of the run: every time the vault password was obtained,
    \* every login-password prompt, the password NewTask ended with and
    \* the host whose secret failed to decrypt
    vaultReads, loginPrompts, newTaskPass, decryptFailed,
    \* Task.sshAgent (the connection to the SSH agent), whether Start
    \* deferred its Close, and the auth methods handed to the proxy
    sshAgent, closeDeferred, proxyAuths

configVars == <<id, taskType, command, scriptFile, pushFiles, fetchFiles, dstDir,
                argHosts, hostsList, inventoryFile, taskTimeout, concurrency, sudo>>
taskVars == <<err, authAssembled, sshClient, allHosts, resolved, listed>>
chanVars == <<detailOutput, taskOutput>>
batchVars == <<pcB, v, successCount, failedCount>>
poolVars == <<nextHost, workers, sessions>>
logVars == <<logged, summaries, warnings>>
histVars == <<delivered, sent>>
restVars == <<res, dirs, exitErr>>

pushVars == <<cmdPc, files, nextFile, zipFiles, disk, clock, nextZip, removeWarnings>>

\* the state outside the task: the commands that wrap it
funcVars == <<call, ret>>

authVars == <<authCfg, aPc, defaultPass, defaultSSHAuthMethods, hIdx, outHosts,
              vaultReads, loginPrompts, newTaskPass, decryptFailed,
              sshAgent, closeDeferred, proxyAuths>>

auxVars == <<pushVars, funcVars, authVars>>

vars == <<configVars, taskVars, chanVars, batchVars, poolVars, pcT, pcH,
          checkErr, logVars, panicked, exited, histVars, restVars, auxVars>>

\* a channel: who closed it ("" while open) and, for the buffered one, its
\* buffer
Open == ""
NoResult == [Host |-> "", Status |-> ""]
IdleWorker == [st |-> "idle", host |-> "", status |-> ""]

\* the push command is not running
PushIdle ==
    /\ cmdPc = "off"
    /\ files = <<>>
    /\ nextFile = 1
    /\ zipFiles = <<>>
    /\ disk = {}
    /\ clock = 1
    /\ nextZip = 1
    /\ removeWarnings = <<>>

\* no function call is under way
NoCall == [fn |-> "none"]
NoRet == [status |-> "none"]
FuncIdle ==
    /\ call = NoCall
    /\ ret = NoRet

\* no authentication assembly is under way
NoAuth == [inventory |-> "none"]
AuthIdle ==
    /\ authCfg = NoAuth
    /\ aPc = "off"
    /\ defaultPass = ""
    /\ defaultSSHAuthMethods = <<>>
    /\ hIdx = 1
    /\ outHosts = <<>>
    /\ vaultReads = <<>>
    /\ loginPrompts = <<>>
    /\ newTaskPass = ""
    /\ decryptFailed = Nil
    /\ sshAgent = Nil
    /\ closeDeferred = FALSE
    /\ proxyAuths = <<>>

\* util.DirExists
DirExists(dir) == dir \in dirs

\* os.MkdirAll: the error it returns
MkdirAll(dir) == IF dir = "/proc/x/out" THEN ErrMkdir ELSE Nil

\* what NewTask leaves of a task besides its configuration: no error, open
\* channels, nothing run, logged or ended; /tmp is the directory that
\* exists on the client before the run
TaskFresh ==
    /\ err = Nil
    /\ authAssembled = FALSE
    /\ sshClient = [built |-> FALSE, Concurrency |-> 0]
    /\ allHosts = <<>>
    /\ resolved = FALSE
    /\ listed = <<>>
    /\ detailOutput = [closedBy |-> Open]
    /\ taskOutput = [closedBy |-> Open, buf |-> <<>>]
    /\ v = NoResult
    /\ successCount = 0
    /\ failedCount = 0
    /\ nextHost = 1
    /\ workers = <<>>
    /\ sessions = {}
    /\ checkErr = "unread"
    /\ logged = <<>>
    /\ summaries = <<>>
    /\ warnings = <<>>
    /\ panicked = Nil
    /\ exited = FALSE
    /\ delivered = <<>>
    /\ sent = <<>>
    /\ res = NoResult
    /\ dirs = {"/tmp"}
    /\ exitErr = Nil

\* NewTask followed by the command's setters and the flags of the run. The
\* destination of a fetch is empty, a directory that exists, one that can
\* be created or one below a directory nothing can be created in. Start
\* has started the BatchRun goroutine and, with a deadline, the timeout
\* goroutine, and has called HandleOutput.
TaskInit ==
    /\ id = "20060102150405"
    /\ taskType \in TaskTypes
    /\ command \in (IF taskType = CommandTask THEN {"", "id"} ELSE {""})
    /\ scriptFile \in (IF taskType = ScriptTask THEN {"", "hello.sh"} ELSE {""})
    /\ pushFiles \in (IF taskType = PushTask
                      THEN {[isNil |-> FALSE, files |-> <<>>],
                            [isNil |-> FALSE, files |-> <<"foo">>]}
                      ELSE {[isNil |-> TRUE, files |-> <<>>]})
    /\ fetchFiles \in (IF taskType = FetchTask THEN {<<>>, <<"/etc/x">>} ELSE {<<>>})
    /\ dstDir \in (IF taskType = FetchTask
                   THEN (IF fetchFiles = <<>> THEN {"", "/tmp"}
                         ELSE {"", "/tmp", "out", "/proc/x/out"})
                   ELSE IF taskType = CommandTask THEN {""} ELSE {"/tmp"})
    /\ argHosts \in ArgHosts
    /\ hostsList \in BOOLEAN
    /\ inventoryFile \in InventoryFiles
    /\ taskTimeout \in TaskTimeouts
    /\ concurrency \in 1..MaxConc
    /\ sudo \in BOOLEAN
    /\ TaskFresh
    /\ pcB = "start"
    /\ pcT = IF taskTimeout > 0 THEN "sleep" ELSE "off"
    /\ pcH = "detail"

\* a task that is constructed and not started, for the specifications of
\* the code around it
TaskIdle(type) ==
    /\ TaskInit
    /\ taskType = type
    /\ command = (IF type = CommandTask THEN "id" ELSE "")
    /\ scriptFile = (IF type = ScriptTask THEN "hello.sh" ELSE "")
    /\ pushFiles.files = (IF type = PushTask THEN <<"foo">> ELSE <<>>)
    /\ fetchFiles = (IF type = FetchTask THEN <<"/etc/x">> ELSE <<>>)
    /\ dstDir = (IF type = CommandTask THEN "" ELSE "/tmp")
    /\ argHosts = <<"h1">>
    /\ ~hostsList
    /\ inventoryFile = ""
    /\ taskTimeout = 0
    /\ concurrency = 1
    /\ ~sudo

\* the runs checked: a command on every selection of hosts, every
\* concurrency and every deadline without sudo; and every operation with
\* every combination of its arguments, with and without sudo, on one host
Init ==
    /\ TaskInit
    /\ \/ (taskType = CommandTask /\ command = "id" /\ ~sudo)
       \/ (argHosts = <<"h1">> /\ inventoryFile = "" /\ concurrency = 1)
    /\ PushIdle
    /\ FuncIdle
    /\ AuthIdle

\* the process is running: the runtime has not ended it after a panic no
\* goroutine recovered ("crashed"), util.CheckErr has not ended it and main
\* has not left
Alive == pcB # "crashed" /\ pcT # "crashed" /\ ~exited /\ exitErr = Nil

\* ------------------------------------------------------------------------
\* BatchRun goroutine
\* ------------------------------------------------------------------------
\* what the switch on the task type ends with: the error it assigns to
\* t.err, the error its util.CheckErr receives, the directories it creates
Checked(e) == [err |-> e, exit |-> Nil, made |-> {}]

\* the switch on the task type that checks the operation's arguments; a
\* fetch destination that does not exist is created
validateArgs ==
    CASE taskType = CommandTask ->
            IF command = "" THEN Checked(ErrNeedExecute) ELSE Checked(Nil)
      [] taskType = ScriptTask ->
            IF scriptFile = "" THEN Checked(ErrNeedExecute) ELSE Checked(Nil)
      [] taskType = PushTask ->
            IF pushFiles.isNil \/ Len(pushFiles.files) = 0
            THEN Checked(ErrNeedFiles) ELSE Checked(Nil)
      [] taskType = FetchTask ->
            IF Len(fetchFiles) = 0 THEN Checked(ErrNeedFiles)
            ELSE IF Len(dstDir) = 0 THEN Checked(ErrNeedDest)
            ELSE IF ~DirExists(dstDir)
            THEN [err |-> Nil, exit |-> MkdirAll(dstDir),
                  made |-> IF MkdirAll(dstDir) = Nil THEN {dstDir} ELSE {}]
            ELSE Checked(Nil)

\* buildSSHClient handing the dispatcher one worker too many
buildSSHClientExtra == [built |-> TRUE, Concurrency |-> concurrency + 1]

\* batchssh.NewClient with the options buildSSHClient passes
buildSSHClient == [built |-> TRUE, Concurrency |-> concurrency]

\* list mode: BatchRun prints what ListHosts returns and returns
BatchRunList ==
    /\ Alive
    /\ pcB = "start"
    /\ hostsList
    /\ LET r == ListHosts(inventoryFile, argHosts)
       IN  /\ err' = r.err
           /\ listed' = r.hosts
    /\ pcB' = "closeDetail"
    /\ UNCHANGED <<auxVars, configVars, authAssembled, sshClient, allHosts, resolved,
                   chanVars, v, successCount, failedCount, poolVars, pcT, pcH, checkErr,
                   logVars, panicked, exited, histVars, restVars>>

\* the switch on the task type and the test of t.err after it: a missing
\* argument makes BatchRun return, a fetch destination that cannot be
\* created ends the process (util.CheckErr)
BatchRunValidate ==
    /\ Alive
    /\ pcB = "start"
    /\ ~hostsList
    /\ LET checked == validateArgs
       IN  /\ dirs' = dirs \cup checked.made
           /\ IF utilCheckErr(checked.exit)
              THEN /\ exitErr' = checked.exit
                   /\ UNCHANGED <<err, pcB>>
              ELSE /\ err' = checked.err
                   /\ pcB' = IF checked.err # Nil THEN "closeDetail" ELSE "auth"
                   /\ UNCHANGED exitErr
    /\ UNCHANGED <<auxVars, configVars, authAssembled, sshClient, allHosts, resolved,
                   listed, chanVars, v, successCount, failedCount, poolVars, pcT, pcH,
                   checkErr, logVars, panicked, exited, histVars, res>>

\* auth.password, auth.pass-file and auth.ask-pass of the runs of this
\* specification: no login password is given
LoginPassword == ""

\* setDefaultSSHAuthMethods up to the sudo prompt (with run.sudo and no
\* login password), or to its end
BatchRunAuth ==
    /\ Alive
    /\ pcB = "auth"
    /\ IF LoginPassword = "" /\ sudo
       THEN /\ pcB' = "sudoPrompt"
            /\ UNCHANGED authAssembled
       ELSE /\ authAssembled' = TRUE
            /\ pcB' = "client"
    /\ UNCHANGED <<auxVars, configVars, err, sshClient, allHosts, resolved, listed,
                   chanVars, v, successCount, failedCount, poolVars, pcT, pcH, checkErr,
                   logVars, panicked, exited, histVars, restVars>>

\* getPasswordFromPrompt: term.ReadPassword returns what was typed, or
\* fails and util.CheckErr ends the process; then the auth methods are
\* assigned
BatchRunSudoPrompt ==
    /\ Alive
    /\ pcB = "sudoPrompt"
    /\ \E typed \in LoginTyped \cup {TermErr} :
          IF utilCheckErr(IF typed = TermErr THEN ErrTerminal ELSE Nil)
          THEN /\ exitErr' = ErrTerminal
               /\ UNCHANGED <<authAssembled, pcB>>
          ELSE /\ authAssembled' = TRUE
               /\ pcB' = "client"
               /\ UNCHANGED exitErr
    /\ UNCHANGED <<auxVars, configVars, err, sshClient, allHosts, resolved, listed,
                   chanVars, v, successCount, failedCount, poolVars, pcT, pcH, checkErr,
                   logVars, panicked, exited, histVars, res, dirs>>

\* t.buildSSHClient()
BatchRunClient ==
    /\ Alive
    /\ pcB = "client"
    /\ sshClient' = buildSSHClient
    /\ pcB' = "hosts"
    /\ UNCHANGED <<auxVars, configVars, err, authAssembled, allHosts, resolved, listed,
                   chanVars, v, successCount, failedCount, poolVars, pcT, pcH, checkErr,
                   logVars, panicked, exited, histVars, restVars>>

\* t.getAllHosts() and the call of the dispatcher, which starts its
\* workers: a resolution error makes BatchRun return, a secret that cannot
\* be decrypted ends the process (util.CheckErr in assignRealPass)
BatchRunHosts ==
    /\ Alive
    /\ pcB = "hosts"
    /\ LET r == getAllHosts(inventoryFile, argHosts)
       IN  IF r.exit # Nil
           THEN /\ exitErr' = r.exit
                /\ UNCHANGED <<err, allHosts, resolved, workers, pcB>>
           ELSE /\ resolved' = TRUE
                /\ UNCHANGED exitErr
                /\ IF r.err # Nil
                   THEN /\ err' = r.err
                        /\ pcB' = "closeDetail"
                        /\ UNCHANGED <<allHosts, workers>>
                   ELSE /\ err' = err
                        /\ allHosts' = r.hosts
                        /\ workers' = [w \in 1..sshClient.Concurrency |-> IdleWorker]
                        /\ pcB' = "recv"
    /\ UNCHANGED <<auxVars, configVars, authAssembled, sshClient, listed, chanVars, v,
                   successCount, failedCount, nextHost, sessions, pcT, pcH, checkErr,
                   logVars, panicked, exited, histVars, res, dirs>>

\* the dispatcher's result stream is closed: every host handed out, every
\* worker back in the pool
ResultsClosed ==
    /\ nextHost > Len(allHosts)
    /\ \A w \in DOMAIN workers : workers[w].st = "idle"

\* IsSuccess comparing with the lower-case word of the log stream
IsSuccessLower(status) == status = "success"

\* the status counted as a success
IsSuccess(status) == status = SuccessIdentifier

\* BatchRunRecv recording a Failed host as the task's error
BatchRunRecvFatal(w) ==
    /\ Alive
    /\ pcB = "recv"
    /\ workers[w].st = "publish"
    /\ v' = [Host |-> workers[w].host, Status |-> workers[w].status]
    /\ IF IsSuccess(workers[w].status)
       THEN successCount' = successCount + 1 /\ failedCount' = failedCount /\ err' = err
       ELSE failedCount' = failedCount + 1 /\ successCount' = successCount
            /\ err' = "host failed"
    /\ workers' = [workers EXCEPT ![w] = IdleWorker]
    /\ delivered' = Append(delivered, v')
    /\ pcB' = "send"
    /\ UNCHANGED <<auxVars, configVars, authAssembled, sshClient, allHosts, resolved, listed,
                   chanVars, nextHost, sessions, pcT, pcH,
                   checkErr, logVars, panicked, exited, sent, restVars>>

\* one iteration of `for v := range result` up to the send: worker w hands
\* its result over, BatchRun counts it
BatchRunRecv(w) ==
    /\ Alive
    /\ pcB = "recv"
    /\ workers[w].st = "publish"
    /\ v' = [Host |-> workers[w].host, Status |-> workers[w].status]
    /\ IF IsSuccess(workers[w].status)
       THEN successCount' = successCount + 1 /\ failedCount' = failedCount
       ELSE failedCount' = failedCount + 1 /\ successCount' = successCount
    /\ workers' = [workers EXCEPT ![w] = IdleWorker]
    /\ delivered' = Append(delivered, v')
    /\ pcB' = "send"
    /\ UNCHANGED <<auxVars, configVars, taskVars, chanVars, nextHost, sessions, pcT, pcH,
                   checkErr, logVars, panicked, exited, sent, restVars>>

\* the range loop left while the dispatcher still has results to hand over
BatchRunResultsEndEarly ==
    /\ Alive
    /\ pcB = "recv"
    /\ pcB' = "summary"
    /\ UNCHANGED <<auxVars, configVars, taskVars, chanVars, v, successCount, failedCount,
                   poolVars, pcT, pcH, checkErr, logVars, panicked, exited, histVars, restVars>>

\* the range loop ends when the result stream is closed
BatchRunResultsEnd ==
    /\ Alive
    /\ pcB = "recv"
    /\ ResultsClosed
    /\ pcB' = "summary"
    /\ UNCHANGED <<auxVars, configVars, taskVars, chanVars, v, successCount, failedCount,
                   poolVars, pcT, pcH, checkErr, logVars, panicked, exited, histVars, restVars>>

\* DetailHandoff on a channel whose close does not stop the hand-over
DetailHandoffAfterClose ==
    /\ Alive
    /\ pcB = "send"
    /\ pcH = "detail"
    /\ res' = v
    /\ sent' = Append(sent, v)
    /\ pcB' = "recv"
    /\ pcH' = "log"
    /\ UNCHANGED <<auxVars, configVars, taskVars, chanVars, v, successCount, failedCount,
                   poolVars, pcT, checkErr, logVars, panicked, exited, delivered,
                   dirs, exitErr>>

\* the send on detailOutput meets HandleOutput's receive (unbuffered
\* channel): the send ends and HandleOutput holds the record in res
DetailHandoff ==
    /\ Alive
    /\ pcB = "send"
    /\ pcH = "detail"
    /\ detailOutput.closedBy = Open
    /\ res' = v
    /\ sent' = Append(sent, v)
    /\ pcB' = "recv"
    /\ pcH' = "log"
    /\ UNCHANGED <<auxVars, configVars, taskVars, chanVars, v, successCount, failedCount,
                   poolVars, pcT, checkErr, logVars, panicked, exited, delivered,
                   dirs, exitErr>>

\* the send on detailOutput finds the channel closed: send on closed
\* channel; the goroutine unwinds into the calls Start deferred. panicked
\* keeps the value of the first panic of the process
BatchRunSendClosed ==
    /\ Alive
    /\ pcB = "send"
    /\ detailOutput.closedBy # Open
    /\ panicked' = (IF panicked = Nil THEN "send on closed channel" ELSE panicked)
    /\ pcB' = "unwindDetail"
    /\ UNCHANGED <<auxVars, configVars, taskVars, chanVars, v, successCount, failedCount,
                   poolVars, pcT, pcH, checkErr, logVars, exited, histVars, restVars>>

\* the summary sent on a taskOutput without a buffer: the send waits for
\* HandleOutput to receive from taskOutput
BatchRunSummaryUnbuffered ==
    /\ Alive
    /\ pcB = "summary"
    /\ IF taskOutput.closedBy # Open
       THEN /\ panicked' = (IF panicked = Nil THEN "send on closed channel" ELSE panicked)
            /\ pcB' = "unwindDetail"
            /\ UNCHANGED taskOutput
       ELSE /\ pcH = "task"
            /\ Len(taskOutput.buf) < 1
            /\ taskOutput' = [taskOutput EXCEPT !.buf =
                                Append(@, [hostsSuccessCount |-> successCount,
                                           hostsFailureCount |-> failedCount])]
            /\ pcB' = "closeDetail"
            /\ UNCHANGED panicked
    /\ UNCHANGED <<auxVars, configVars, taskVars, detailOutput, v, successCount, failedCount,
                   poolVars, pcT, pcH, checkErr, logVars, exited, histVars, restVars>>

\* the summary is sent on taskOutput (capacity 1)
BatchRunSummary ==
    /\ Alive
    /\ pcB = "summary"
    /\ IF taskOutput.closedBy # Open
       THEN /\ panicked' = (IF panicked = Nil THEN "send on closed channel" ELSE panicked)
            /\ pcB' = "unwindDetail"
            /\ UNCHANGED taskOutput
       ELSE /\ Len(taskOutput.buf) < 1
            /\ taskOutput' = [taskOutput EXCEPT !.buf =
                                Append(@, [hostsSuccessCount |-> successCount,
                                           hostsFailureCount |-> failedCount])]
            /\ pcB' = "closeDetail"
            /\ UNCHANGED panicked
    /\ UNCHANGED <<auxVars, configVars, taskVars, detailOutput, v, successCount, failedCount,
                   poolVars, pcT, pcH, checkErr, logVars, exited, histVars, restVars>>

\* deferred close(t.detailOutput) of the BatchRun goroutine, run when
\* BatchRun returns ("closeDetail") and when it panics ("unwindDetail"); a
\* panic of the deferred call does not stop the call deferred before it
BatchRunCloseDetail ==
    /\ Alive
    /\ pcB \in {"closeDetail", "unwindDetail"}
    /\ IF detailOutput.closedBy # Open
       THEN /\ panicked' = (IF panicked = Nil THEN "close of closed channel" ELSE panicked)
            /\ pcB' = "unwindTask"
            /\ UNCHANGED detailOutput
       ELSE /\ detailOutput' = [closedBy |-> "BatchRun"]
            /\ pcB' = IF pcB = "closeDetail" THEN "closeTask" ELSE "unwindTask"
            /\ UNCHANGED panicked
    /\ UNCHANGED <<auxVars, configVars, taskVars, taskOutput, v, successCount, failedCount,
                   poolVars, pcT, pcH, checkErr, logVars, exited, histVars, restVars>>

\* deferred close(t.taskOutput) of the BatchRun goroutine, the last
\* deferred call: the goroutine ends, or the panic reaches its top
BatchRunCloseTask ==
    /\ Alive
    /\ pcB \in {"closeTask", "unwindTask"}
    /\ IF taskOutput.closedBy # Open
       THEN /\ panicked' = (IF panicked = Nil THEN "close of closed channel" ELSE panicked)
            /\ pcB' = "crash"
            /\ UNCHANGED taskOutput
       ELSE /\ taskOutput' = [taskOutput EXCEPT !.closedBy = "BatchRun"]
            /\ pcB' = IF pcB = "closeTask" THEN "done" ELSE "crash"
            /\ UNCHANGED panicked
    /\ UNCHANGED <<auxVars, configVars, taskVars, detailOutput, v, successCount, failedCount,
                   poolVars, pcT, pcH, checkErr, logVars, exited, histVars, restVars>>

\* the panic of the BatchRun goroutine was not recovered: the runtime
\* prints it and ends the process with status 2
BatchRunCrash ==
    /\ Alive
    /\ pcB = "crash"
    /\ pcB' = "crashed"
    /\ UNCHANGED <<auxVars, configVars, taskVars, chanVars, v, successCount, failedCount,
                   poolVars, pcT, pcH, checkErr, logVars, panicked, exited, histVars,
                   restVars>>

\* ------------------------------------------------------------------------
\* Dispatcher worker pool (pkg/batchssh)
\* ------------------------------------------------------------------------
\* a free worker takes the next host of the queue, dials and authenticates:
\* either the session is open or the host is Failed
WorkerPick(w) ==
    /\ Alive
    /\ w \in DOMAIN workers
    /\ workers[w].st = "idle"
    /\ nextHost <= Len(allHosts)
    /\ LET host == allHosts[nextHost].Alias
       IN  \E connected \in BOOLEAN :
              IF connected
              THEN /\ workers' = [workers EXCEPT ![w] =
                                    [st |-> "running", host |-> host, status |-> ""]]
                   /\ sessions' = sessions \cup {host}
              ELSE /\ workers' = [workers EXCEPT ![w] =
                                    [st |-> "publish", host |-> host,
                                     status |-> FailedIdentifier]]
                   /\ UNCHANGED sessions
    /\ nextHost' = nextHost + 1
    /\ UNCHANGED <<auxVars, configVars, taskVars, chanVars, batchVars, pcT, pcH, checkErr,
                   logVars, panicked, exited, histVars, restVars>>

\* the operation on the host ends (result, remote error or command
\* timeout); the session is released and the result is ready to publish
WorkerFinish(w) ==
    /\ Alive
    /\ w \in DOMAIN workers
    /\ workers[w].st = "running"
    /\ \E status \in {SuccessIdentifier, FailedIdentifier} :
          workers' = [workers EXCEPT ![w] =
                        [st |-> "publish", host |-> workers[w].host, status |-> status]]
    /\ sessions' = sessions \ {workers[w].host}
    /\ UNCHANGED <<auxVars, configVars, taskVars, chanVars, batchVars, nextHost, pcT, pcH,
                   checkErr, logVars, panicked, exited, histVars, restVars>>

\* ------------------------------------------------------------------------
\* Timeout goroutine of Start
\* ------------------------------------------------------------------------
\* TimeoutFire without the warning
TimeoutFireSilent ==
    /\ Alive
    /\ pcT = "sleep"
    /\ pcT' = "closeDetail"
    /\ UNCHANGED <<auxVars, configVars, taskVars, chanVars, batchVars, poolVars, pcH,
                   checkErr, logVars, panicked, exited, histVars, restVars>>

\* the sleep ends and the warning is logged
TimeoutFire ==
    /\ Alive
    /\ pcT = "sleep"
    /\ warnings' = Append(warnings, [taskID |-> id, timeout |-> taskTimeout])
    /\ pcT' = "closeDetail"
    /\ UNCHANGED <<auxVars, configVars, taskVars, chanVars, batchVars, poolVars, pcH,
                   checkErr, logged, summaries, panicked, exited, histVars, restVars>>

\* close(t.detailOutput) of the timeout goroutine, which deferred nothing
TimeoutCloseDetail ==
    /\ Alive
    /\ pcT = "closeDetail"
    /\ IF detailOutput.closedBy # Open
       THEN /\ panicked' = (IF panicked = Nil THEN "close of closed channel" ELSE panicked)
            /\ pcT' = "crash"
            /\ UNCHANGED detailOutput
       ELSE /\ detailOutput' = [closedBy |-> "timeout"]
            /\ pcT' = "closeTask"
            /\ UNCHANGED panicked
    /\ UNCHANGED <<auxVars, configVars, taskVars, taskOutput, batchVars, poolVars, pcH,
                   checkErr, logVars, exited, histVars, restVars>>

\* close(t.taskOutput) of the timeout goroutine
TimeoutCloseTask ==
    /\ Alive
    /\ pcT = "closeTask"
    /\ IF taskOutput.closedBy # Open
       THEN /\ panicked' = (IF panicked = Nil THEN "close of closed channel" ELSE panicked)
            /\ pcT' = "crash"
            /\ UNCHANGED taskOutput
       ELSE /\ taskOutput' = [taskOutput EXCEPT !.closedBy = "timeout"]
            /\ pcT' = "done"
            /\ UNCHANGED panicked
    /\ UNCHANGED <<auxVars, configVars, taskVars, detailOutput, batchVars, poolVars, pcH,
                   checkErr, logVars, exited, histVars, restVars>>

\* the panic of the timeout goroutine was not recovered: the runtime
\* prints it and ends the process with status 2
TimeoutCrash ==
    /\ Alive
    /\ pcT = "crash"
    /\ pcT' = "crashed"
    /\ UNCHANGED <<auxVars, configVars, taskVars, chanVars, batchVars, poolVars, pcH,
                   checkErr, logVars, panicked, exited, histVars, restVars>>

\* ------------------------------------------------------------------------
\* HandleOutput on the caller's goroutine, then the command's CheckErr
\* ------------------------------------------------------------------------
\* the body of `for res := range t.detailOutput` logging Success records
\* only
HandleLogSuccessOnly ==
    /\ Alive
    /\ pcH = "log"
    /\ logged' = IF res.Status = SuccessIdentifier
                 THEN Append(logged, [hostname |-> res.Host, status |-> res.Status])
                 ELSE logged
    /\ pcH' = "detail"
    /\ UNCHANGED <<auxVars, configVars, taskVars, chanVars, batchVars, poolVars, pcT,
                   checkErr, summaries, warnings, panicked, exited, histVars, restVars>>

\* the body of `for res := range t.detailOutput`: the output is cleaned
\* and the record is logged
HandleLog ==
    /\ Alive
    /\ pcH = "log"
    /\ logged' = Append(logged, [hostname |-> res.Host, status |-> res.Status])
    /\ pcH' = "detail"
    /\ UNCHANGED <<auxVars, configVars, taskVars, chanVars, batchVars, poolVars, pcT,
                   checkErr, summaries, warnings, panicked, exited, histVars, restVars>>

\* `for res := range t.detailOutput` ends: the channel is closed
HandleDetailClosed ==
    /\ Alive
    /\ pcH = "detail"
    /\ detailOutput.closedBy # Open
    /\ pcH' = "task"
    /\ UNCHANGED <<auxVars, configVars, taskVars, chanVars, batchVars, poolVars, pcT,
                   checkErr, logVars, panicked, exited, histVars, restVars>>

\* `for res := range t.taskOutput` receives the summary from the buffer
HandleSummaryRecv ==
    /\ Alive
    /\ pcH = "task"
    /\ Len(taskOutput.buf) > 0
    /\ res' = Head(taskOutput.buf)
    /\ taskOutput' = [taskOutput EXCEPT !.buf = Tail(@)]
    /\ pcH' = "logSummary"
    /\ UNCHANGED <<auxVars, configVars, taskVars, detailOutput, batchVars, poolVars, pcT,
                   checkErr, logVars, panicked, exited, histVars, dirs, exitErr>>

\* the body of `for res := range t.taskOutput`: the summary is logged
HandleSummary ==
    /\ Alive
    /\ pcH = "logSummary"
    /\ summaries' = Append(summaries, res)
    /\ pcH' = "task"
    /\ UNCHANGED <<auxVars, configVars, taskVars, chanVars, batchVars, poolVars, pcT,
                   checkErr, logged, warnings, panicked, exited, histVars, restVars>>

\* the second range loop ends (closed and drained): Start returns
HandleTaskClosed ==
    /\ Alive
    /\ pcH = "task"
    /\ Len(taskOutput.buf) = 0
    /\ taskOutput.closedBy # Open
    /\ pcH' = "returned"
    /\ UNCHANGED <<auxVars, configVars, taskVars, chanVars, batchVars, poolVars, pcT,
                   checkErr, logVars, panicked, exited, histVars, restVars>>

\* Task.CheckErr
CheckErr == err

\* after Start the command reads CheckErr and the process ends
MainExit ==
    /\ Alive
    /\ pcH = "returned"
    /\ checkErr' = CheckErr
    /\ exited' = TRUE
    /\ UNCHANGED <<auxVars, configVars, taskVars, chanVars, batchVars, poolVars, pcT, pcH,
                   logVars, panicked, histVars, restVars>>

\* ------------------------------------------------------------------------
\* Specification
\* ------------------------------------------------------------------------
Next ==
    \/ BatchRunList
    \/ BatchRunValidate
    \/ BatchRunAuth
    \/ BatchRunSudoPrompt
    \/ BatchRunClient
    \/ BatchRunHosts
    \/ \E w \in DOMAIN workers : BatchRunRecv(w)
    \/ BatchRunResultsEnd
    \/ DetailHandoff
    \/ BatchRunSendClosed
    \/ BatchRunSummary
    \/ BatchRunCloseDetail
    \/ BatchRunCloseTask
    \/ BatchRunCrash
    \/ \E w \in DOMAIN workers : WorkerPick(w)
    \/ \E w \in DOMAIN workers : WorkerFinish(w)
    \/ TimeoutFire
    \/ TimeoutCloseDetail
    \/ TimeoutCloseTask
    \/ TimeoutCrash
    \/ HandleLog
    \/ HandleDetailClosed
    \/ HandleSummaryRecv
    \/ HandleSummary
    \/ HandleTaskClosed
    \/ MainExit

Spec == Init /\ [][Next]_vars

\* The Go scheduler runs every runnable goroutine and the sleep of the
\* timeout goroutine ends; nothing makes a remote operation end, and nothing
\* makes the read of the terminal at the sudo prompt return.
FairSpec ==
    /\ Spec
    /\ WF_vars(BatchRunList)
    /\ WF_vars(BatchRunValidate)
    /\ WF_vars(BatchRunAuth)
    /\ WF_vars(BatchRunClient)
    /\ WF_vars(BatchRunHosts)
    /\ WF_vars(\E w \in DOMAIN workers : BatchRunRecv(w))
    /\ WF_vars(BatchRunResultsEnd)
    /\ WF_vars(DetailHandoff)
    /\ WF_vars(HandleLog)
    /\ WF_vars(BatchRunSendClosed)
    /\ WF_vars(BatchRunSummary)
    /\ WF_vars(BatchRunCloseDetail)
    /\ WF_vars(BatchRunCloseTask)
    /\ WF_vars(BatchRunCrash)
    /\ WF_vars(TimeoutFire)
    /\ WF_vars(TimeoutCloseDetail)
    /\ WF_vars(TimeoutCloseTask)
    /\ WF_vars(TimeoutCrash)
    /\ WF_vars(HandleDetailClosed)
    /\ WF_vars(HandleSummaryRecv)
    /\ WF_vars(HandleSummary)
    /\ WF_vars(HandleTaskClosed)
    /\ WF_vars(MainExit)

\* FairSpec for runs in which the dispatcher goes on as well: every host is
\* taken by a worker and every operation on a host ends, so the result
\* stream closes
DispatcherFairSpec ==
    /\ FairSpec
    /\ WF_vars(\E w \in DOMAIN workers : WorkerPick(w))
    /\ WF_vars(\E w \in DOMAIN workers : WorkerFinish(w))

TypeOK ==
    /\ pcB \in {"start", "auth", "sudoPrompt", "client", "hosts", "recv", "send",
               "summary", "closeDetail", "closeTask", "done", "off", "unwindDetail",
               "unwindTask", "crash", "crashed"}
    /\ pcT \in {"off", "sleep", "closeDetail", "closeTask", "done", "crash", "crashed"}
    /\ pcH \in {"off", "detail", "log", "task", "logSummary", "returned"}
    /\ Len(taskOutput.buf) <= 1

\* ------------------------------------------------------------------------
\* The push command (internal/cmd/push.go) around the task
\* ------------------------------------------------------------------------
\* local files the -f flag may name
PushFileNames == {"foo", "bar/", "dir/foo"}

\* filepath.Base on the file names of the model
Base(f) ==
    CASE f = "bar/" -> "bar"
      [] f = "dir/foo" -> "foo"
      [] OTHER -> f

RECURSIVE FileLists(_)
FileLists(n) ==
    IF n = 0 THEN {<<>>}
    ELSE LET shorter == FileLists(n - 1)
         IN  shorter \cup {Append(l, f) : l \in shorter, f \in PushFileNames}

\* the archive name "." + base + "." + microseconds
zipName(f, now) == [name |-> Base(f), stamp |-> now]

\* the elements of a sequence
Range(seq) == {seq[i] : i \in 1..Len(seq)}

\* the command starts: NewTask is built, the working directory is known,
\* no goroutine of the task runs. The runs checked: every list of files
\* with one host and no deadline, and one file with no, one or two hosts,
\* every deadline and concurrency, with and without sudo and an inventory
\* whose host has a password that cannot be decoded
PushInit ==
    /\ id = "20060102150405"
    /\ taskType = PushTask
    /\ command = ""
    /\ scriptFile = ""
    /\ pushFiles = [isNil |-> TRUE, files |-> <<>>]
    /\ fetchFiles = <<>>
    /\ dstDir = "/tmp"
    /\ argHosts \in {<<>>, <<"h1">>, <<"h1", "h[1-2]">>}
    /\ hostsList = FALSE
    /\ inventoryFile \in {"", "locked.ini"}
    /\ taskTimeout \in TaskTimeouts
    /\ concurrency \in 1..MaxConc
    /\ sudo \in BOOLEAN
    /\ TaskFresh
    /\ pcB = "off"
    /\ pcT = "off"
    /\ pcH = "off"
    /\ cmdPc = "zip"
    /\ files \in FileLists(MaxFiles)
    /\ nextFile = 1
    /\ zipFiles = <<>>
    /\ disk = {}
    /\ clock \in {1, 2}
    /\ nextZip = 1
    /\ removeWarnings = <<>>
    /\ \/ (argHosts = <<"h1">> /\ inventoryFile = "" /\ taskTimeout = 0
            /\ concurrency = 1 /\ ~sudo)
       \/ (files = <<"foo">> /\ clock = 1)
    /\ FuncIdle
    /\ AuthIdle

\* one iteration of the loop that compresses the files: util.Zip fails and
\* util.CheckErr ends the process, or the archive is written and recorded
pushCompress ==
    /\ cmdPc = "zip"
    /\ nextFile <= Len(files)
    /\ \E zipErr \in {Nil, "zip failed"} :
          IF utilCheckErr(zipErr)
          THEN /\ cmdPc' = "exit1"
               /\ exited' = TRUE
               /\ UNCHANGED <<nextFile, zipFiles, disk, clock>>
          ELSE LET zipFile == zipName(files[nextFile], clock)
               IN  /\ disk' = disk \cup {zipFile}
                   /\ zipFiles' = Append(zipFiles, zipFile)
                   /\ nextFile' = nextFile + 1
                   /\ clock' = clock + 1
                   /\ UNCHANGED <<cmdPc, exited>>
    /\ UNCHANGED <<files, nextZip, removeWarnings>>
    /\ UNCHANGED <<configVars, taskVars, chanVars, batchVars, poolVars, pcT, pcH,
                   checkErr, logVars, panicked, histVars, funcVars,
                   authVars, restVars>>

\* after the loop: the removal is deferred, the task is given its hosts and
\* files, and task.Start starts the BatchRun goroutine and, with a
\* deadline, the timeout goroutine, and calls HandleOutput
pushStart ==
    /\ cmdPc = "zip"
    /\ nextFile > Len(files)
    /\ cmdPc' = "Start"
    /\ pushFiles' = [isNil |-> FALSE, files |-> files]
    /\ pcB' = "start"
    /\ pcT' = IF taskTimeout > 0 THEN "sleep" ELSE "off"
    /\ pcH' = "detail"
    /\ UNCHANGED <<files, nextFile, zipFiles, disk, clock, nextZip, removeWarnings>>
    /\ UNCHANGED <<id, taskType, command, scriptFile, fetchFiles, dstDir, argHosts,
                   hostsList, inventoryFile, taskTimeout, concurrency, sudo>>
    /\ UNCHANGED <<taskVars, chanVars, v, successCount, failedCount, poolVars,
                   checkErr, logVars, panicked, exited, histVars, funcVars,
                   authVars, restVars>>

\* task.Start has returned: util.CobraCheckErrWithHelp(cmd, task.CheckErr())
\* ends the process on a task error, without the deferred removal;
\* otherwise Run returns into the function it deferred
pushCheckErr ==
    /\ Alive
    /\ cmdPc = "Start"
    /\ pcH = "returned"
    /\ checkErr' = CheckErr
    /\ IF utilCheckErr(CheckErr)
       THEN /\ cmdPc' = "exit1"
            /\ exited' = TRUE
       ELSE /\ cmdPc' = "remove"
            /\ UNCHANGED exited
    /\ UNCHANGED <<files, nextFile, zipFiles, disk, clock, nextZip, removeWarnings>>
    /\ UNCHANGED <<configVars, taskVars, chanVars, batchVars, poolVars, pcT, pcH,
                   logVars, panicked, histVars, funcVars, authVars, restVars>>

\* one iteration of the deferred loop: os.Remove removes the archive, or
\* fails, and then a warning is printed and the archive stays
pushRemove ==
    /\ Alive
    /\ cmdPc = "remove"
    /\ nextZip <= Len(zipFiles)
    /\ \E removeErr \in {Nil, "remove failed"} :
          IF removeErr # Nil
          THEN /\ removeWarnings' = Append(removeWarnings, zipFiles[nextZip])
               /\ UNCHANGED disk
          ELSE /\ disk' = disk \ {zipFiles[nextZip]}
               /\ UNCHANGED removeWarnings
    /\ nextZip' = nextZip + 1
    /\ UNCHANGED <<cmdPc, files, nextFile, zipFiles, clock>>
    /\ UNCHANGED <<configVars, taskVars, chanVars, batchVars, poolVars, pcT, pcH,
                   checkErr, logVars, panicked, exited, histVars, funcVars,
                   authVars, restVars>>

\* the deferred loop is over: Run returns and the process ends with
\* status 0
pushExit ==
    /\ Alive
    /\ cmdPc = "remove"
    /\ nextZip > Len(zipFiles)
    /\ cmdPc' = "exit0"
    /\ exited' = TRUE
    /\ UNCHANGED <<files, nextFile, zipFiles, disk, clock, nextZip, removeWarnings>>
    /\ UNCHANGED <<configVars, taskVars, chanVars, batchVars, poolVars, pcT, pcH,
                   checkErr, logVars, panicked, histVars, funcVars, authVars, restVars>>

\* the command, and from task.Start on the goroutines of the task beside it
PushNext ==
    \/ pushCompress
    \/ pushStart
    \/ BatchRunValidate
    \/ BatchRunAuth
    \/ BatchRunSudoPrompt
    \/ BatchRunClient
    \/ BatchRunHosts
    \/ \E w \in DOMAIN workers : BatchRunRecv(w)
    \/ BatchRunResultsEnd
    \/ DetailHandoff
    \/ BatchRunSendClosed
    \/ BatchRunSummary
    \/ BatchRunCloseDetail
    \/ BatchRunCloseTask
    \/ BatchRunCrash
    \/ \E w \in DOMAIN workers : WorkerPick(w)
    \/ \E w \in DOMAIN workers : WorkerFinish(w)
    \/ TimeoutFire
    \/ TimeoutCloseDetail
    \/ TimeoutCloseTask
    \/ TimeoutCrash
    \/ HandleLog
    \/ HandleDetailClosed
    \/ HandleSummaryRecv
    \/ HandleSummary
    \/ HandleTaskClosed
    \/ pushCheckErr
    \/ pushRemove
    \/ pushExit

PushSpec == PushInit /\ [][PushNext]_vars

\* ------------------------------------------------------------------------
\* Authentication assembly (NewTask, setDefaultSSHAuthMethods, getAllHosts)
\* ------------------------------------------------------------------------
\* the home directory identity files are expanded against
HomeKey(file) == CASE file = "~/id_ok" -> "/home/u/id_ok" [] OTHER -> file

\* parseItentityFiles
parseItentityFiles(identityFiles) ==
    [i \in 1..Len(identityFiles) |-> HomeKey(identityFiles[i])]

\* getSigner: the signer of a key file (named by the file), Nil when the
\* file cannot be read or parsed; id_enc is encrypted with passphrase pp
getSigner(keyfile, passphrase) ==
    CASE keyfile \in {"id_ok", "/home/u/id_ok"} -> keyfile
      [] keyfile = "id_enc" -> IF passphrase = "pp" THEN keyfile ELSE Nil
      [] OTHER -> Nil

\* getSigners
RECURSIVE getSigners(_, _)
getSigners(keyfiles, passphrase) ==
    IF keyfiles = <<>> THEN <<>>
    ELSE LET signer == getSigner(Head(keyfiles), passphrase)
             rest == getSigners(Tail(keyfiles), passphrase)
         IN  IF signer # Nil THEN <<signer>> \o rest ELSE rest

\* ssh.PublicKeys and ssh.Password
PublicKeys(signers) == [kind |-> "publickey", signers |-> signers, password |-> ""]
Password(p) == [kind |-> "password", signers |-> <<>>, password |-> p]

\* what stands for the content of a pass file ioutil.ReadFile cannot read
Unreadable == "<unreadable>"

\* the password sources of a run: pass file (with its content, or
\* unreadable), flag or configuration value
PasswordSources ==
    {[PassFile |-> "", Password |-> ""],
     [PassFile |-> " filepw ", Password |-> ""],
     [PassFile |-> " ", Password |-> ""],
     [PassFile |-> " filepw ", Password |-> "pw"],
     [PassFile |-> "", Password |-> "enc(pw,k1)"],
     [PassFile |-> Unreadable, Password |-> ""],
     [PassFile |-> Unreadable, Password |-> "pw"]}

\* the default identity files of a run with the passphrase configured
IdentitySources ==
    {[IdentityFiles |-> <<>>, Passphrase |-> ""],
     [IdentityFiles |-> <<"~/id_ok">>, Passphrase |-> ""],
     [IdentityFiles |-> <<"id_missing">>, Passphrase |-> ""],
     [IdentityFiles |-> <<"id_enc", "id_missing">>, Passphrase |-> "pp"]}

\* SSH_AUTH_SOCK: unset, an agent with a key, an agent without keys
Agents == {"unset", "live", "live-empty"}

\* vault password files of a run: none, or a file holding k1
AuthVaultFiles == {NoVaultFile, VaultFile("vault.txt", 420, "k1 ", "")}

\* hosts.port and auth.user of the configuration
DefaultPort == 22
DefaultUser == "root"

\* an inventory host without a port and a user of its own, with its
\* password, identity files and passphrase
InvHost(alias, password, keys, passphrase) ==
    [Alias |-> alias, Port |-> 0, User |-> "", Password |-> password,
     Keys |-> keys, Passphrase |-> passphrase]

\* an inventory host with a port and a user of its own
InvHostAt(alias, port, user, password) ==
    [Alias |-> alias, Port |-> port, User |-> user, Password |-> password,
     Keys |-> <<>>, Passphrase |-> ""]

\* the targets of a run: positional names without an inventory ("none"),
\* or the hosts selected from an inventory
AuthTargets ==
    {[inventory |-> "none", names |-> <<"h1", "h2">>, hosts |-> <<>>]}
        \cup {[inventory |-> "hosts.ini", names |-> <<>>, hosts |-> hs] : hs \in
               {<<InvHost("h1", "", <<>>, "")>>,
                <<InvHostAt("h1", 2222, "bob", "hpw"), InvHost("h2", "", <<>>, "")>>,
                <<InvHost("h1", "enc(hpw,k1)", <<>>, ""), InvHost("h2", "", <<>>, "")>>,
                <<InvHost("h1", "enc(hpw,k1)", <<>>, ""),
                  InvHost("h2", "enc(hpw,k1)", <<>>, "")>>,
                <<InvHost("h1", "enc(hpw,k2)", <<>>, ""), InvHost("h2", "hpw", <<>>, "")>>,
                <<InvHost("h1", "", <<"id_enc">>, "enc(pp,k1)"),
                  InvHost("h2", "hpw", <<"id_ok">>, "")>>,
                <<InvHost("h1", "enc(hpw,k1)", <<"id_enc">>, "enc(pp,k1)")>>,
                <<InvHost("h1", "", <<"id_missing">>, "")>>}}

\* the proxy section of the configuration: no proxy, a proxy with a
\* password, with a valid identity file only, with a missing one only
ProxySources ==
    {[Server |-> "", Password |-> "", IdentityFiles |-> <<>>, Passphrase |-> ""],
     [Server |-> "jump", Password |-> "ppw", IdentityFiles |-> <<>>, Passphrase |-> ""],
     [Server |-> "jump", Password |-> "", IdentityFiles |-> <<"~/id_ok">>,
      Passphrase |-> ""],
     [Server |-> "jump", Password |-> "", IdentityFiles |-> <<"id_missing">>,
      Passphrase |-> ""]}

AuthCfgs ==
    {[PassFile |-> p.PassFile, Password |-> p.Password, AskPass |-> a,
      IdentityFiles |-> i.IdentityFiles, Passphrase |-> i.Passphrase,
      Sudo |-> s, agent |-> g, VaultPassFile |-> f, Proxy |-> x,
      inventory |-> t.inventory, names |-> t.names, hosts |-> t.hosts] :
        p \in PasswordSources, a \in BOOLEAN, i \in IdentitySources,
        s \in BOOLEAN, g \in Agents, f \in AuthVaultFiles, x \in ProxySources,
        t \in AuthTargets}

AuthInit ==
    /\ TaskIdle(CommandTask)
    /\ PushIdle
    /\ FuncIdle
    /\ authCfg \in AuthCfgs
    /\ aPc = "NewTask"
    /\ defaultPass = ""
    /\ defaultSSHAuthMethods = <<>>
    /\ hIdx = 1
    /\ outHosts = <<>>
    /\ vaultReads = <<>>
    /\ loginPrompts = <<>>
    /\ newTaskPass = ""
    /\ decryptFailed = Nil
    /\ sshAgent = Nil
    /\ closeDeferred = FALSE
    /\ proxyAuths = <<>>

\* NewTask: getDefaultPassword (pass file, then flag or configuration
\* value, decoded when encrypted, then the --auth.ask-pass prompt); a pass
\* file that cannot be read, a vault password that cannot be had, a failed
\* decoding and a failed read at the prompt end the process
authNewTask ==
    /\ aPc = "NewTask"
    /\ \E vaultTyped \in VaultTyped \cup {<<TermErr>>, <<"", TermErr>>},
          typed \in LoginTyped \cup {TermErr} :
        LET fromFile == IF authCfg.PassFile # "" THEN TrimSpace(authCfg.PassFile) ELSE ""
            password == IF authCfg.Password # "" THEN authCfg.Password ELSE fromFile
            real == assignRealPass(password, authCfg.VaultPassFile, vaultTyped)
        IN  IF utilCheckErr(IF authCfg.PassFile = Unreadable
                           THEN "read password file failed" ELSE Nil)
            THEN /\ aPc' = "exit1"
                 /\ UNCHANGED <<vaultReads, defaultPass, loginPrompts, newTaskPass>>
            ELSE
            /\ vaultReads' = vaultReads \o real.reads
            /\ IF real.fatal
               THEN /\ aPc' = "exit1"
                    /\ UNCHANGED <<defaultPass, loginPrompts, newTaskPass>>
               ELSE IF authCfg.AskPass
               THEN /\ loginPrompts' =
                            Append(loginPrompts, [at |-> "ask-pass", typed |-> typed])
                    /\ IF utilCheckErr(IF typed = TermErr THEN ErrTerminal ELSE Nil)
                       THEN /\ aPc' = "exit1"
                            /\ UNCHANGED <<defaultPass, newTaskPass>>
                       ELSE /\ aPc' = "Start"
                            /\ defaultPass' = typed
                            /\ newTaskPass' = typed
               ELSE /\ aPc' = "Start"
                    /\ defaultPass' = real.pass
                    /\ newTaskPass' = real.pass
                    /\ UNCHANGED loginPrompts
    /\ UNCHANGED <<authCfg, defaultSSHAuthMethods, hIdx, outHosts, decryptFailed,
                   sshAgent, closeDeferred, proxyAuths>>
    /\ UNCHANGED <<configVars, taskVars, chanVars, batchVars, poolVars, pcT, pcH,
                   checkErr, logVars, panicked, exited, histVars, pushVars, funcVars, restVars>>

\* the entry of Start: Close of the agent connection is deferred when the
\* task has one; then the BatchRun goroutine is started
authStart ==
    /\ aPc = "Start"
    /\ closeDeferred' = (sshAgent # Nil)
    /\ aPc' = "setDefaultSSHAuthMethods"
    /\ UNCHANGED <<authCfg, defaultPass, defaultSSHAuthMethods, hIdx, outHosts,
                   vaultReads, loginPrompts, newTaskPass, decryptFailed, sshAgent,
                   proxyAuths>>
    /\ UNCHANGED <<configVars, taskVars, chanVars, batchVars, poolVars, pcT, pcH,
                   checkErr, logVars, panicked, exited, histVars, pushVars, funcVars, restVars>>

\* default methods without the password typed at the sudo prompt
defaultAuthsNoSudo(cfg, pass, typed) ==
    LET agentSigners == IF cfg.agent = "live" THEN <<"agent-key">> ELSE <<>>
        keyFiles == parseItentityFiles(cfg.IdentityFiles)
        signers == agentSigners \o getSigners(keyFiles, cfg.Passphrase)
        keyAuths == IF Len(signers) # 0 THEN <<PublicKeys(signers)>> ELSE <<>>
        passAuths == IF pass # "" THEN <<Password(pass)>> ELSE <<>>
    IN  keyAuths \o passAuths

\* the methods setDefaultSSHAuthMethods puts together
defaultAuths(cfg, pass, typed) ==
    LET agentSigners == IF cfg.agent = "live" THEN <<"agent-key">> ELSE <<>>
        keyFiles == parseItentityFiles(cfg.IdentityFiles)
        signers == agentSigners \o getSigners(keyFiles, cfg.Passphrase)
        keyAuths == IF Len(signers) # 0 THEN <<PublicKeys(signers)>> ELSE <<>>
        passAuths == IF pass # "" THEN <<Password(pass)>> ELSE <<>>
        sudoAuths == IF pass = "" /\ cfg.Sudo THEN <<Password(typed)>> ELSE <<>>
    IN  keyAuths \o passAuths \o sudoAuths

\* setDefaultSSHAuthMethods: the agent connection is kept before the
\* methods are put together; a failed read at the sudo prompt ends the
\* process with the methods of the task not assigned
authSetDefault ==
    /\ aPc = "setDefaultSSHAuthMethods"
    /\ \E typed \in LoginTyped \cup {TermErr} :
        IF defaultPass = "" /\ authCfg.Sudo
        THEN /\ loginPrompts' = Append(loginPrompts, [at |-> "sudo", typed |-> typed])
             /\ IF utilCheckErr(IF typed = TermErr THEN ErrTerminal ELSE Nil)
                THEN /\ aPc' = "exit1"
                     /\ UNCHANGED <<defaultPass, defaultSSHAuthMethods>>
                ELSE /\ aPc' = "buildSSHClient"
                     /\ defaultPass' = typed
                     /\ defaultSSHAuthMethods' = defaultAuths(authCfg, defaultPass, typed)
        ELSE /\ aPc' = "buildSSHClient"
             /\ defaultSSHAuthMethods' = defaultAuths(authCfg, defaultPass, typed)
             /\ UNCHANGED <<defaultPass, loginPrompts>>
    /\ sshAgent' = IF authCfg.agent \in {"live", "live-empty"} THEN "open" ELSE Nil
    /\ UNCHANGED <<authCfg, hIdx, outHosts, vaultReads, newTaskPass, decryptFailed,
                   closeDeferred, proxyAuths>>
    /\ UNCHANGED <<configVars, taskVars, chanVars, batchVars, poolVars, pcT, pcH,
                   checkErr, logVars, panicked, exited, histVars, pushVars, funcVars, restVars>>

\* proxy methods without the default password as a fallback
getProxySSHAuthMethodsNoFallback(cfg, conn, pass) ==
    LET agentSigners == IF conn # Nil /\ cfg.agent = "live" THEN <<"agent-key">> ELSE <<>>
        proxyKeyfiles == parseItentityFiles(cfg.Proxy.IdentityFiles)
        signers == agentSigners \o getSigners(proxyKeyfiles, cfg.Proxy.Passphrase)
        keyAuths == IF Len(signers) # 0 THEN <<PublicKeys(signers)>> ELSE <<>>
        passAuths == IF cfg.Proxy.Password # "" THEN <<Password(cfg.Proxy.Password)>>
                     ELSE <<>>
    IN  keyAuths \o passAuths

\* getProxySSHAuthMethods: the signers of the task's agent connection and
\* of the proxy's identity files as one public-key method, then the
\* proxy's password or else the default password
getProxySSHAuthMethods(cfg, conn, pass) ==
    LET agentSigners == IF conn # Nil /\ cfg.agent = "live" THEN <<"agent-key">> ELSE <<>>
        proxyKeyfiles == parseItentityFiles(cfg.Proxy.IdentityFiles)
        signers == agentSigners \o getSigners(proxyKeyfiles, cfg.Proxy.Passphrase)
        keyAuths == IF Len(signers) # 0 THEN <<PublicKeys(signers)>> ELSE <<>>
        passAuths == IF cfg.Proxy.Password # "" THEN <<Password(cfg.Proxy.Password)>>
                     ELSE <<Password(pass)>>
    IN  keyAuths \o passAuths

\* buildSSHClient: with a proxy server configured the client is given the
\* proxy's auth methods
authBuildSSHClient ==
    /\ aPc = "buildSSHClient"
    /\ proxyAuths' = IF authCfg.Proxy.Server # ""
                     THEN getProxySSHAuthMethods(authCfg, sshAgent, defaultPass)
                     ELSE <<>>
    /\ aPc' = "getAllHosts"
    /\ UNCHANGED <<authCfg, defaultPass, defaultSSHAuthMethods, hIdx, outHosts,
                   vaultReads, loginPrompts, newTaskPass, decryptFailed, sshAgent,
                   closeDeferred>>
    /\ UNCHANGED <<configVars, taskVars, chanVars, batchVars, poolVars, pcT, pcH,
                   checkErr, logVars, panicked, exited, histVars, pushVars, funcVars, restVars>>

\* getAllHosts without an inventory: every positional name becomes a host
\* with the defaults
authArgHosts ==
    /\ aPc = "getAllHosts"
    /\ authCfg.inventory = "none"
    /\ outHosts' = deDuplSSHHosts(
                    [i \in 1..Len(authCfg.names) |->
                        [Alias |-> authCfg.names[i],
                         Port |-> DefaultPort,
                         User |-> DefaultUser,
                         Password |-> defaultPass,
                         Keys |-> parseItentityFiles(authCfg.IdentityFiles),
                         SSHAuths |-> defaultSSHAuthMethods]])
    /\ aPc' = "dispatch"
    /\ UNCHANGED <<authCfg, defaultPass, defaultSSHAuthMethods, hIdx, vaultReads,
                   loginPrompts, newTaskPass, decryptFailed, sshAgent, closeDeferred,
                   proxyAuths>>
    /\ UNCHANGED <<configVars, taskVars, chanVars, batchVars, poolVars, pcT, pcH,
                   checkErr, logVars, panicked, exited, histVars, pushVars, funcVars, restVars>>

\* one iteration of the loop of getAllHosts over the inventory's hosts:
\* own identity files (passphrase decoded), own password (decoded) or the
\* default password, then the default methods
hostAuth(h, cfg, pass, defaults, typedPassphrase, typedPassword) ==
    LET phrase == IF Len(h.Keys) # 0
                  THEN assignRealPass(h.Passphrase, cfg.VaultPassFile, typedPassphrase)
                  ELSE [fatal |-> FALSE, decrypt |-> FALSE, pass |-> h.Passphrase,
                        reads |-> <<>>]
        sshSigners == getSigners(parseItentityFiles(h.Keys), phrase.pass)
        keyAuths == IF Len(h.Keys) # 0 /\ Len(sshSigners) # 0
                    THEN <<PublicKeys(sshSigners)>> ELSE <<>>
        word == assignRealPass(IF h.Password = "" THEN pass ELSE h.Password,
                               cfg.VaultPassFile, typedPassword)
        passAuths == IF h.Password = "" THEN <<>> ELSE <<Password(word.pass)>>
    IN  IF phrase.fatal
        THEN [fatal |-> TRUE, decrypt |-> phrase.decrypt, reads |-> phrase.reads,
              host |-> h]
        ELSE [fatal |-> word.fatal, decrypt |-> word.decrypt,
              reads |-> phrase.reads \o word.reads,
              host |-> [Alias |-> h.Alias,
                        Port |-> IF h.Port = 0 THEN DefaultPort ELSE h.Port,
                        User |-> IF h.User = "" THEN DefaultUser ELSE h.User,
                        Password |-> word.pass, Keys |-> h.Keys,
                        SSHAuths |-> keyAuths \o passAuths \o defaults]]

\* getAllHosts with an inventory: the next host of the loop
authInventoryHost ==
    /\ aPc = "getAllHosts"
    /\ authCfg.inventory # "none"
    /\ hIdx <= Len(authCfg.hosts)
    /\ \E typedPassphrase \in VaultTyped \cup {<<TermErr>>, <<"", TermErr>>},
          typedPassword \in VaultTyped \cup {<<TermErr>>, <<"", TermErr>>} :
        LET r == hostAuth(authCfg.hosts[hIdx], authCfg, defaultPass,
                          defaultSSHAuthMethods, typedPassphrase, typedPassword)
        IN  /\ vaultReads' = vaultReads \o r.reads
            /\ IF r.fatal
               THEN /\ aPc' = "exit1"
                    /\ decryptFailed' =
                            IF r.decrypt THEN authCfg.hosts[hIdx].Alias ELSE decryptFailed
                    /\ UNCHANGED <<hIdx, outHosts>>
               ELSE /\ outHosts' = Append(outHosts, r.host)
                    /\ hIdx' = hIdx + 1
                    /\ aPc' = IF hIdx = Len(authCfg.hosts) THEN "dispatch" ELSE aPc
                    /\ UNCHANGED decryptFailed
    /\ UNCHANGED <<authCfg, defaultPass, defaultSSHAuthMethods, loginPrompts, newTaskPass,
                   sshAgent, closeDeferred, proxyAuths>>
    /\ UNCHANGED <<configVars, taskVars, chanVars, batchVars, poolVars, pcT, pcH,
                   checkErr, logVars, panicked, exited, histVars, pushVars, funcVars, restVars>>

\* the hosts were dispatched and the output handled: Start returns and
\* runs what it deferred
authStartReturn ==
    /\ aPc = "dispatch"
    /\ sshAgent' = IF closeDeferred THEN "closed" ELSE sshAgent
    /\ aPc' = "returned"
    /\ UNCHANGED <<authCfg, defaultPass, defaultSSHAuthMethods, hIdx, outHosts,
                   vaultReads, loginPrompts, newTaskPass, decryptFailed,
                   closeDeferred, proxyAuths>>
    /\ UNCHANGED <<configVars, taskVars, chanVars, batchVars, poolVars, pcT, pcH,
                   checkErr, logVars, panicked, exited, histVars, pushVars, funcVars, restVars>>

AuthNext ==
    \/ authNewTask
    \/ authStart
    \/ authSetDefault
    \/ authBuildSSHClient
    \/ authArgHosts
    \/ authInventoryHost
    \/ authStartReturn

AuthSpec == AuthInit /\ [][AuthNext]_vars

\* ------------------------------------------------------------------------
\* Single calls of functions
\* ------------------------------------------------------------------------
VaultCalls ==
    {[fn |-> "GetVaultPassword", file |-> f, typed |-> t] :
        f \in VaultPassFiles, t \in TypedLines(MaxTyped)}

\* longest list handed to the deduplication functions
MaxList == 3

DedupAliases == {"a", "b", "c"}
DedupHosts == {[Alias |-> a, Host |-> h] : a \in {"a", "b"}, h \in {"10.0.0.1", "10.0.0.2"}}

RECURSIVE ListsOver(_, _)
ListsOver(S, n) ==
    IF n = 0 THEN {<<>>}
    ELSE LET shorter == ListsOver(S, n - 1)
         IN  shorter \cup {Append(l, x) : l \in shorter, x \in S}

DedupCalls ==
    {[fn |-> "deDuplicate", names |-> l] : l \in ListsOver(DedupAliases, MaxList)}
        \cup {[fn |-> "deDuplSSHHosts", hosts |-> l] : l \in ListsOver(DedupHosts, MaxList)}

\* most positional arguments of a run with an inventory
MaxInvArgs == 2

\* positional arguments of a run with an inventory: groups, a group of
\* groups, hosts, a name that is both, a name the inventory does not have,
\* patterns, a blank
InvArgTokens == {"web", "dc", "h1", "h2", "h4", "h[1-2]", "h[", " "}

InventoryCalls ==
    {[fn |-> "getInventoryHosts", inventory |-> f, args |-> a] :
        f \in (InventoryFiles \ {""}) \cup {"groups.ini"},
        a \in ListsOver(InvArgTokens, MaxInvArgs)}

\* the output of a host as a sequence of pieces: a piece of visible text,
\* a blank, a line feed, a carriage return with line feed, and a sudo
\* password prompt ("[sudo] password for bob:")
SudoPrompt == "[sudo] password for bob:"
OutputPieces == {"x", " ", "\n", "\r\n", SudoPrompt}

\* longest output of a host, in pieces
MaxOutput == 4

\* strings.ReplaceAll(res.output, "\r\n", "\n")
ReplaceCRLF(output) ==
    [i \in 1..Len(output) |-> IF output[i] = "\r\n" THEN "\n" ELSE output[i]]

\* regexp ReplaceAllString(output, "") with sudoPromptRegex: the pattern
\* starts with (?s).* and so matches from the start of the output up to
\* the last prompt, with the line feed after it when there is one
sudoPromptReplace(output) ==
    LET prompts == {i \in 1..Len(output) : output[i] = SudoPrompt}
    IN  IF prompts = {} THEN output
        ELSE LET last == CHOOSE i \in prompts : \A j \in prompts : j <= i
                 after == SubSeq(output, last + 1, Len(output))
             IN  IF after # <<>> /\ Head(after) = "\n" THEN Tail(after) ELSE after

\* strings.TrimSpace on a sequence of pieces
RECURSIVE TrimLeft(_)
TrimLeft(output) ==
    IF output # <<>> /\ Head(output) \in {" ", "\n", "\r\n"}
    THEN TrimLeft(Tail(output)) ELSE output

RECURSIVE TrimRight(_)
TrimRight(output) ==
    IF output # <<>> /\ output[Len(output)] \in {" ", "\n", "\r\n"}
    THEN TrimRight(SubSeq(output, 1, Len(output) - 1)) ELSE output

TrimSpacePieces(output) == TrimRight(TrimLeft(output))

\* the output HandleOutput logs for a received result
loggedOutput(output) ==
    TrimSpacePieces(sudoPromptReplace(ReplaceCRLF(output)))

OutputCalls ==
    {[fn |-> "HandleOutput", output |-> o] : o \in ListsOver(OutputPieces, MaxOutput)}

\* a configuration and positional arguments given once to list mode and once
\* to a run: every inventory (none included) with the arguments of a run and
\* with the arguments of a run with an inventory
ResolveCalls ==
    {[fn |-> f, inventory |-> i, args |-> a] :
        f \in {"ListHosts", "getAllHosts"},
        i \in InventoryFiles \cup {"groups.ini"},
        a \in ArgHosts \cup ListsOver(InvArgTokens, MaxInvArgs)}

FuncCalls == VaultCalls \cup DedupCalls \cup InventoryCalls \cup OutputCalls
                \cup ResolveCalls

FuncInit ==
    /\ TaskIdle(CommandTask)
    /\ PushIdle
    /\ call \in FuncCalls
    /\ ret = NoRet
    /\ AuthIdle

CallGetVaultPassword ==
    /\ call.fn = "GetVaultPassword"
    /\ ret = NoRet
    /\ ret' = GetVaultPassword(call.file, call.typed)
    /\ UNCHANGED <<configVars, taskVars, chanVars, batchVars, poolVars, pcT, pcH,
                   checkErr, logVars, panicked, exited, histVars, pushVars, call,
                   authVars, restVars>>

CallDeDuplicate ==
    /\ call.fn = "deDuplicate"
    /\ ret = NoRet
    /\ ret' = [status |-> "ok", names |-> deDuplicate(call.names)]
    /\ UNCHANGED <<configVars, taskVars, chanVars, batchVars, poolVars, pcT, pcH,
                   checkErr, logVars, panicked, exited, histVars, pushVars, call,
                   authVars, restVars>>

CallDeDuplSSHHosts ==
    /\ call.fn = "deDuplSSHHosts"
    /\ ret = NoRet
    /\ ret' = [status |-> "ok", set |-> deDuplSSHHosts(call.hosts)]
    /\ UNCHANGED <<configVars, taskVars, chanVars, batchVars, poolVars, pcT, pcH,
                   checkErr, logVars, panicked, exited, histVars, pushVars, call,
                   authVars, restVars>>

CallGetInventoryHosts ==
    /\ call.fn = "getInventoryHosts"
    /\ ret = NoRet
    /\ LET r == getInventoryHosts(call.inventory, call.args)
       IN  ret' = [status |-> IF r.err = Nil THEN "ok" ELSE "error",
                   err |-> r.err, hosts |-> r.hosts]
    /\ UNCHANGED <<configVars, taskVars, chanVars, batchVars, poolVars, pcT, pcH,
                   checkErr, logVars, panicked, exited, histVars, pushVars, call,
                   authVars, restVars>>

CallHandleOutput ==
    /\ call.fn = "HandleOutput"
    /\ ret = NoRet
    /\ ret' = [status |-> "ok", output |-> loggedOutput(call.output)]
    /\ UNCHANGED <<configVars, taskVars, chanVars, batchVars, poolVars, pcT, pcH,
                   checkErr, logVars, panicked, exited, histVars, pushVars, call,
                   authVars, restVars>>

CallListHosts ==
    /\ call.fn = "ListHosts"
    /\ ret = NoRet
    /\ LET r == ListHosts(call.inventory, call.args)
       IN  ret' = [status |-> IF r.err = Nil THEN "ok" ELSE "error",
                   err |-> r.err, names |-> r.hosts]
    /\ UNCHANGED <<configVars, taskVars, chanVars, batchVars, poolVars, pcT, pcH,
                   checkErr, logVars, panicked, exited, histVars, pushVars, call,
                   authVars, restVars>>

CallGetAllHosts ==
    /\ call.fn = "getAllHosts"
    /\ ret = NoRet
    /\ LET r == getAllHosts(call.inventory, call.args)
       IN  ret' = [status |-> IF r.exit # Nil THEN "exit"
                              ELSE IF r.err = Nil THEN "ok" ELSE "error",
                   err |-> IF r.exit # Nil THEN r.exit ELSE r.err,
                   hosts |-> r.hosts]
    /\ UNCHANGED <<configVars, taskVars, chanVars, batchVars, poolVars, pcT, pcH,
                   checkErr, logVars, panicked, exited, histVars, pushVars, call,
                   authVars, restVars>>

FuncNext ==
    \/ CallGetVaultPassword
    \/ CallDeDuplicate
    \/ CallDeDuplSSHHosts
    \/ CallGetInventoryHosts
    \/ CallHandleOutput
    \/ CallListHosts
    \/ CallGetAllHosts

FuncSpec == FuncInit /\ [][FuncNext]_vars

\* ------------------------------------------------------------------------
\* Properties
\* ------------------------------------------------------------------------
\* the dispatcher was called: its workers exist
Dispatched == DOMAIN workers # {}

\* the record HandleOutput logs for a result
LogOf(r) == [hostname |-> r.Host, status |-> r.Status]

\* indexes of the records logged for an alias
RecordsOf(alias) == {i \in 1..Len(logged) : logged[i].hostname = alias}

\* every summary record written so far (still in the channel, received by
\* HandleOutput, or logged)
AllSummaries ==
    {taskOutput.buf[i] : i \in 1..Len(taskOutput.buf)}
        \cup {summaries[i] : i \in 1..Len(summaries)}
        \cup (IF pcH = "logSummary" THEN {res} ELSE {})

\* C1: without a task timeout, the records logged are the results the
\* dispatcher delivered, each once and in the order delivered; when Start
\* returns after a dispatch there is one record per resolved host and
\* exactly one summary record.
C1_EveryResultLoggedOnce ==
    taskTimeout = 0 =>
        /\ Len(logged) <= Len(delivered)
        /\ \A i \in 1..Len(logged) : logged[i] = LogOf(delivered[i])
        /\ Len(summaries) <= 1
        /\ (pcH = "returned" /\ Dispatched) =>
              /\ Len(logged) = Len(allHosts)
              /\ Len(delivered) = Len(allHosts)
              /\ \A k \in 1..Len(allHosts) :
                    Cardinality(RecordsOf(allHosts[k].Alias)) = 1
              /\ Len(summaries) = 1

C1_Witness ==
    /\ taskTimeout = 0
    /\ pcH = "returned"
    /\ Len(allHosts) = 2
    /\ Len(logged) = 2
    /\ logged[1].hostname = "h2"
    /\ Len(summaries) = 1

\* C2: in every summary BatchRun produced, the success count is the number
\* of Success results it handed to detailOutput, the failure count is the
\* number of all others, and the two add up to the number handed over.
C2_SummaryCountsForwarded ==
    \A s \in AllSummaries :
        /\ s.hostsSuccessCount =
              Cardinality({i \in 1..Len(sent) : sent[i].Status = SuccessIdentifier})
        /\ s.hostsFailureCount =
              Cardinality({i \in 1..Len(sent) : sent[i].Status # SuccessIdentifier})
        /\ s.hostsSuccessCount + s.hostsFailureCount = Len(sent)

C2_Witness ==
    /\ Len(summaries) = 1
    /\ summaries[1].hostsSuccessCount = 1
    /\ summaries[1].hostsFailureCount = 1
    /\ Len(sent) = 2

\* C3: with a task timeout, BatchRun never sends on a channel the deadline
\* has already closed, so the task does not panic with a send on a closed
\* channel.
C3_NoSendOnClosedChannel ==
    taskTimeout > 0 => panicked # "send on closed channel"

\* C4: with a task timeout, once the timeout goroutine has closed both
\* streams of a task whose hosts were dispatched, HandleOutput leaves both
\* loops and Start returns, whatever the hosts do.
C4_StartReturnsAfterDeadline ==
    (pcT = "done" /\ Dispatched) ~> (pcH = "returned")

\* C5: the number of open SSH sessions never exceeds run.concurrency.
C5_SessionsWithinConcurrency ==
    Cardinality(sessions) <= concurrency

C5_Witness ==
    /\ concurrency = 1
    /\ Cardinality(sessions) = 1
    /\ nextHost <= Len(allHosts)
    /\ nextHost > 1

\* C6: once the arguments were valid and hosts were resolved, the task error
\* stays unset however many hosts fail, CheckErr returns nil after Start,
\* and without a task timeout every host still has its record when Start
\* returns.
C6_HostFailuresNotFatal ==
    Dispatched =>
        /\ err = Nil
        /\ exited => checkErr = Nil
        /\ (taskTimeout = 0 /\ pcH = "returned") =>
              \A k \in 1..Len(allHosts) : RecordsOf(allHosts[k].Alias) # {}

C6_Witness ==
    /\ exited
    /\ checkErr = Nil
    /\ taskTimeout = 0
    /\ \E i \in 1..Len(logged) : logged[i].status = FailedIdentifier
    /\ \E i \in 1..Len(logged) : logged[i].status = SuccessIdentifier

\* the operation's required argument is missing
MissingArgument ==
    \/ taskType = CommandTask /\ command = ""
    \/ taskType = ScriptTask /\ scriptFile = ""
    \/ taskType = PushTask /\ (pushFiles.isNil \/ pushFiles.files = <<>>)
    \/ taskType = FetchTask /\ (fetchFiles = <<>> \/ dstDir = "")

\* the error reported for a missing argument
ArgumentErrors == {ErrNeedExecute, ErrNeedFiles, ErrNeedDest}

\* nothing beyond the argument check has happened
NothingStarted ==
    /\ ~authAssembled
    /\ ~sshClient.built
    /\ ~resolved
    /\ allHosts = <<>>
    /\ ~Dispatched
    /\ sessions = {}
    /\ logged = <<>>
    /\ summaries = <<>>
    /\ taskOutput.buf = <<>>

\* BatchRun has left its body: the closes Start deferred are running or
\* have run, the second of them also after the first one panicked
BatchRunLeft ==
    pcB \in {"closeDetail", "closeTask", "done", "unwindTask", "crash", "crashed"}

\* C7: when the operation's required argument is missing (hosts.list not
\* set, so that the argument is required), BatchRun records the argument
\* error and returns with nothing beyond the check done and nothing
\* emitted, and what the command reads from CheckErr after Start is that
\* error.
C7_MissingArgumentFatal ==
    (~hostsList /\ MissingArgument) =>
        /\ NothingStarted
        /\ pcB # "start" => (err \in ArgumentErrors /\ BatchRunLeft)
        /\ exited => checkErr \in ArgumentErrors

\* the part of C7 that holds with and without a task timeout: BatchRun
\* records the argument error and returns with nothing beyond the check
\* done and nothing emitted
C7_NothingBeyondTheCheck ==
    (~hostsList /\ MissingArgument) =>
        /\ NothingStarted
        /\ pcB # "start" => (err \in ArgumentErrors /\ BatchRunLeft)

\* C8: whenever host resolution ends with an empty host list, the error is
\* 'need target hosts', nothing is dispatched and no summary is produced.
C8_NoRunWithZeroHosts ==
    (resolved /\ allHosts = <<>> /\ err \notin {ErrInvalidPattern, ErrInventoryParse}) =>
        /\ err = helpErr
        /\ ~Dispatched
        /\ AllSummaries = {}

\* C9: once the deadline has fired the task-timeout warning (task id and
\* timeout value) is in the log, and the timeout goroutine closes a stream
\* only with the warning already logged.
C9_WarningBeforeClose ==
    /\ [](pcT \in {"closeDetail", "closeTask", "done"} =>
            warnings = <<[taskID |-> id, timeout |-> taskTimeout]>>)
    /\ [][((detailOutput'.closedBy = "timeout" /\ detailOutput.closedBy = Open)
            \/ (taskOutput'.closedBy = "timeout" /\ taskOutput.closedBy = Open))
          => warnings # <<>>]_vars

C9_Witness ==
    /\ warnings # <<>>
    /\ detailOutput.closedBy = "timeout"
    /\ taskOutput.closedBy = "timeout"

\* C10 as stated: with a task timeout, at most one record per resolved host
\* is logged, only hosts that were started have a record, and no record is
\* logged once detailOutput is closed.
C10_NoRecordAfterClose ==
    /\ [](taskTimeout > 0 =>
            /\ Len(logged) <= Len(allHosts)
            /\ Len(logged) <= nextHost - 1
            /\ \A k \in 1..Len(allHosts) :
                  Cardinality(RecordsOf(allHosts[k].Alias)) <= 1)
    /\ [][(taskTimeout > 0 /\ detailOutput.closedBy # Open) => logged' = logged]_vars

\* C10 (amended): with a task timeout, at most one record per resolved host
\* is logged, only hosts that were started have a record, and no record is
\* taken from detailOutput once that stream is closed; the only record
\* logged after the close is the one HandleOutput had already received.
C10_NoRecordTakenAfterClose ==
    /\ [](taskTimeout > 0 =>
            /\ Len(logged) <= Len(allHosts)
            /\ Len(logged) <= nextHost - 1
            /\ Len(logged) <= Len(sent)
            /\ Len(sent) <= Len(logged) + 1
            /\ \A k \in 1..Len(allHosts) :
                  Cardinality(RecordsOf(allHosts[k].Alias)) <= 1)
    /\ [][(taskTimeout > 0 /\ detailOutput.closedBy # Open) =>
            /\ sent' = sent
            /\ logged' # logged =>
                  /\ pcH = "log"
                  /\ Len(logged) + 1 = Len(sent)
                  /\ logged' = Append(logged, LogOf(sent[Len(sent)]))]_vars

C10_Witness ==
    /\ detailOutput.closedBy = "timeout"
    /\ pcH = "log"
    /\ Len(allHosts) = 2
    /\ nextHost = 2
    /\ Len(sent) = 1
    /\ logged = <<>>

\* the push command has exited with status 0 or 1: at the end of Run, or
\* through util.CheckErr in the command or inside task.Start
PushExited == cmdPc \in {"exit0", "exit1"} \/ exitErr # Nil

\* C11: when the push command has exited, with status 0 or 1, none of the
\* staging archives it created is left on disk.
C11_ArchivesDeletedOnExit ==
    PushExited => disk = {}

\* file modes with at least one executable bit: 0755, 0650, 0601
ExecBitModes == {493, 424, 385}

\* the text the configured vault password file stands for: what it prints
\* when it has an executable bit, what it contains otherwise
VaultFileText(file) ==
    IF file.mode \in ExecBitModes THEN file.out ELSE file.content

\* C17: with a vault password file configured the terminal is never
\* prompted and a password obtained is the trimmed output of the file (any
\* executable bit set) or its trimmed contents (none set); only with no
\* file configured does the password come from the prompt.
C17_VaultPasswordOnlyFromFile ==
    (call.fn = "GetVaultPassword" /\ ret # NoRet) =>
        IF call.file.path # ""
        THEN /\ ret.prompts = 0
             /\ ret.source # "prompt"
             /\ ret.status = "ok" =>
                    ret.password = TrimSpace(VaultFileText(call.file))
        ELSE ret.source = "prompt" /\ ret.prompts > 0

\* a file with only the group's executable bit was run and its trimmed
\* output returned, with lines waiting at the terminal
C17_Witness ==
    /\ call.fn = "GetVaultPassword"
    /\ call.file.path # ""
    /\ call.file.mode = 424
    /\ call.typed # <<>>
    /\ ret # NoRet
    /\ ret.status = "ok"
    /\ ret.source = "exec"
    /\ ret.password = "k2"

\* number of empty lines typed before anything else
RECURSIVE LeadingEmpty(_)
LeadingEmpty(typed) ==
    IF typed # <<>> /\ Head(typed) = "" THEN 1 + LeadingEmpty(Tail(typed)) ELSE 0

\* C18: GetVaultPassword never returns an empty password: every empty
\* line typed at the prompt is answered by another prompt, and a file or
\* script yielding nothing but blanks ends the process.
C18_VaultPasswordNeverEmpty ==
    (call.fn = "GetVaultPassword" /\ ret # NoRet) =>
        /\ ret.status = "ok" => ret.password # ""
        /\ call.file.path = "" => ret.prompts = LeadingEmpty(call.typed) + 1
        /\ (/\ call.file.path # ""
            /\ ~call.file.statErr
            /\ TrimSpace(VaultFileText(call.file)) = "") => ret.status = "fatal"

\* two empty lines were typed, then a password: three prompts, the third
\* line returned
C18_Witness ==
    /\ call.fn = "GetVaultPassword"
    /\ call.file.path = ""
    /\ call.typed = <<"", "", "k1">>
    /\ ret # NoRet
    /\ ret.status = "ok"
    /\ ret.password = "k1"
    /\ ret.prompts = 3

\* the first position of an alias in a list of aliases
FirstAlias(l, a) == CHOOSE i \in 1..Len(l) : l[i] = a /\ \A j \in 1..(i - 1) : l[j] # a

\* a list of aliases is the deduplication of another: the same aliases,
\* each once, in the order of their first occurrences
DedupOf(in, out) ==
    /\ Range(out) = Range(in)
    /\ \A i, j \in 1..Len(out) : i # j => out[i] # out[j]
    /\ \A i, j \in 1..Len(out) : i < j => FirstAlias(in, out[i]) < FirstAlias(in, out[j])

AliasesOf(l) == [i \in 1..Len(l) |-> l[i].Alias]

\* C19: deDuplicate and deDuplSSHHosts return every alias of their input
\* exactly once and no other, ordered by first occurrence; the host entry
\* kept for an alias is the first one of the input.
C19_DedupFirstOccurrence ==
    /\ (call.fn = "deDuplicate" /\ ret # NoRet) => DedupOf(call.names, ret.names)
    /\ (call.fn = "deDuplSSHHosts" /\ ret # NoRet) =>
            /\ DedupOf(AliasesOf(call.hosts), AliasesOf(ret.set))
            /\ \A i \in 1..Len(ret.set) :
                    ret.set[i] = call.hosts[FirstAlias(AliasesOf(call.hosts),
                                                       ret.set[i].Alias)]

\* two entries of alias a with different addresses around an entry of b:
\* a (with its first address) and b are returned
C19_Witness ==
    /\ call.fn = "deDuplSSHHosts"
    /\ call.hosts = <<[Alias |-> "a", Host |-> "10.0.0.1"],
                      [Alias |-> "b", Host |-> "10.0.0.1"],
                      [Alias |-> "a", Host |-> "10.0.0.2"]>>
    /\ ret # NoRet
    /\ Len(ret.set) = 2
    /\ ret.set[1].Host = "10.0.0.1"

\* the groups a group reaches through :children sections, itself included
RECURSIVE GroupsBelow(_, _)
GroupsBelow(inv, gs) ==
    LET more == gs \cup UNION {Range(inv.children[g]) : g \in gs}
    IN  IF more = gs THEN gs ELSE GroupsBelow(inv, more)

\* what a name selects: the hosts of a group and of every group below it,
\* else the host of that alias, else a host made of the name alone
Selected(inv, name) ==
    IF name \in DOMAIN inv.groups
    THEN {h \in Range(inv.hosts) :
            \E g \in GroupsBelow(inv, {name}) : h.Alias \in Range(inv.groups[g])}
    ELSE IF \E h \in Range(inv.hosts) : h.Alias = name
    THEN {h \in Range(inv.hosts) : h.Alias = name}
    ELSE {[Alias |-> name, Host |-> name]}

\* the names the arguments expand to
ExpandedNames(args) ==
    UNION {Range(PatternToHosts(args[i]).hosts) : i \in 1..Len(args)}

\* C20: with an inventory, the hosts selected are those the expanded names
\* select by priority (group with all transitive members, else host alias,
\* else anonymous host named by the argument); without arguments they are
\* all hosts of the inventory.
C20_InventorySelectionPriority ==
    (call.fn = "getInventoryHosts" /\ ret # NoRet /\ ret.status = "ok") =>
        LET inv == Inventory(call.inventory)
        IN  IF call.args = <<>> THEN ret.hosts = inv.hosts
            ELSE /\ Range(ret.hosts) =
                        UNION {Selected(inv, n) : n \in ExpandedNames(call.args)}
                 /\ Len(call.args) = 1 /\ Len(PatternToHosts(call.args[1]).hosts) = 1
                        => Cardinality(Range(ret.hosts)) = Len(ret.hosts)

\* the group of groups selected the hosts of its sub-groups, and the name
\* of a group and of a host selected the group's member
C20_Witness ==
    /\ call.fn = "getInventoryHosts"
    /\ call.inventory = "groups.ini"
    /\ call.args = <<"dc", "h2">>
    /\ ret # NoRet
    /\ ret.status = "ok"
    /\ ret.hosts = <<[Alias |-> "h1", Host |-> "10.0.0.1"],
                     NamedHost("h2"), NamedHost("h3"), NamedHost("h3")>>

\* C12: during one run the vault password is obtained from its source at
\* most once, however many encrypted values are decoded.
C12_VaultPasswordObtainedOnce ==
    Len(vaultReads) <= 1

\* C13: when the password or passphrase of an inventory host fails to
\* decrypt, the process goes on (the other hosts are still dispatched).
C13_HostDecryptFailureNotFatal ==
    decryptFailed # Nil => aPc # "exit1"

\* the login-password prompts shown for sudo
SudoPrompts == {i \in 1..Len(loginPrompts) : loginPrompts[i].at = "sudo"}

\* the built hosts that have no password of their own
NoOwnPassword ==
    {i \in 1..Len(outHosts) :
        authCfg.inventory = "none" \/ authCfg.hosts[i].Password = ""}

\* sudo is requested, NewTask ended without a login password and the
\* default methods have been set
SudoWithoutPassword ==
    /\ aPc \in {"buildSSHClient", "getAllHosts", "dispatch", "returned"}
    /\ authCfg.Sudo
    /\ newTaskPass = ""

\* C14 as stated: with sudo requested and no login password after NewTask,
\* the run shows exactly one login-password prompt, and what is typed is
\* the password method and the Password of every host without its own.
C14_LoginPromptExactlyOnce ==
    SudoWithoutPassword =>
        /\ Len(loginPrompts) = 1
        /\ Password(loginPrompts[1].typed) \in Range(defaultSSHAuthMethods)
        /\ \A i \in NoOwnPassword : outHosts[i].Password = loginPrompts[1].typed

\* the read of the terminal at the sudo prompt failed
SudoPromptFailed ==
    /\ loginPrompts # <<>>
    /\ loginPrompts[Len(loginPrompts)] = [at |-> "sudo", typed |-> TermErr]

\* C14, amended: with sudo requested and no login password after NewTask,
\* setDefaultSSHAuthMethods prompts exactly once (after the --auth.ask-pass
\* prompt, when that was answered with an empty line), and what is typed is
\* the last default method and the Password of every host without its own;
\* when the terminal cannot be read at that prompt the process ends there,
\* with no default method set and no host built.
C14_SudoPromptOnceAfterDefaults ==
    /\ SudoWithoutPassword =>
        /\ Cardinality(SudoPrompts) = 1
        /\ Len(loginPrompts) \in SudoPrompts
        /\ Len(loginPrompts) = IF authCfg.AskPass THEN 2 ELSE 1
        /\ LET typed == loginPrompts[Len(loginPrompts)].typed
           IN  /\ typed # TermErr
               /\ defaultSSHAuthMethods # <<>>
               /\ defaultSSHAuthMethods[Len(defaultSSHAuthMethods)] = Password(typed)
               /\ defaultPass = typed
               /\ \A i \in NoOwnPassword : outHosts[i].Password = typed
    /\ SudoPromptFailed =>
        /\ aPc = "exit1"
        /\ authCfg.Sudo /\ newTaskPass = ""
        /\ Cardinality(SudoPrompts) = 1
        /\ defaultSSHAuthMethods = <<>>
        /\ outHosts = <<>>

\* sudo with an empty answer to --auth.ask-pass: a second prompt, and the
\* host without a password of its own carries what was typed there
C14_Witness ==
    /\ aPc = "dispatch"
    /\ authCfg.Sudo
    /\ authCfg.AskPass
    /\ newTaskPass = ""
    /\ Len(loginPrompts) = 2
    /\ Len(outHosts) = 2
    /\ authCfg.inventory # "none"
    /\ authCfg.hosts[1].Password = "hpw"
    /\ outHosts[1].Password = "hpw"
    /\ outHosts[2].Password = "typed"

\* C15: in the methods of every host built, no password method stands
\* before a public-key method.
C15_PasswordAfterPublicKeys ==
    \A i \in 1..Len(outHosts) :
        LET auths == outHosts[i].SSHAuths
        IN  \A j, k \in 1..Len(auths) :
                (auths[j].kind = "password" /\ auths[k].kind = "publickey") => k < j

\* C16: every host built carries at least one method, unless an SSH agent
\* socket is live.
C16_AtLeastOneAuthMethod ==
    \A i \in 1..Len(outHosts) :
        \/ Len(outHosts[i].SSHAuths) >= 1
        \/ authCfg.agent \in {"live", "live-empty"}

\* the value an inventory secret stands for
PlainOf(secret) ==
    IF IsAES256CipherText(secret) THEN Ciphertexts[secret].text ELSE secret

\* C21: every host built from the inventory carries its own port, user,
\* password and identity files where the inventory sets them and the
\* defaults of the configuration otherwise.
C21_EffectiveFieldsOwnOrDefault ==
    authCfg.inventory # "none" =>
        \A i \in 1..Len(outHosts) :
            LET own == authCfg.hosts[i]
                out == outHosts[i]
            IN  /\ out.Port = IF own.Port # 0 THEN own.Port ELSE DefaultPort
                /\ out.User = IF own.User # "" THEN own.User ELSE DefaultUser
                /\ out.Password = IF own.Password # "" THEN PlainOf(own.Password)
                                  ELSE defaultPass
                /\ out.Keys = IF own.Keys # <<>> THEN own.Keys
                              ELSE parseItentityFiles(authCfg.IdentityFiles)

\* an output without its sudo prompt lines: every prompt is taken out, with
\* the line feed that ends its line
RECURSIVE WithoutPromptLines(_)
WithoutPromptLines(output) ==
    IF output = <<>> THEN <<>>
    ELSE IF Head(output) = SudoPrompt
    THEN IF Tail(output) # <<>> /\ Head(Tail(output)) = "\n"
         THEN WithoutPromptLines(Tail(Tail(output)))
         ELSE WithoutPromptLines(Tail(output))
    ELSE <<Head(output)>> \o WithoutPromptLines(Tail(output))

\* every sudo prompt of an output starts a line
PromptsStartLines(output) ==
    \A i \in 2..Len(output) :
        output[i] = SudoPrompt => output[i - 1] \in {"\n", "\r\n"}

\* C22: the output logged for a host is the raw output with CRLF replaced
\* by LF and only the sudo prompt lines taken out, trimmed; the lines
\* printed before a prompt are kept.
C22_OnlyPromptLinesRemoved ==
    (call.fn = "HandleOutput" /\ ret # NoRet /\ PromptsStartLines(call.output)) =>
        ret.output = TrimSpacePieces(WithoutPromptLines(ReplaceCRLF(call.output)))

\* the signers the proxy's public-key method is made of: those of the
\* agent, then those of the proxy's identity files
ProxySigners ==
    (IF authCfg.agent = "live" THEN <<"agent-key">> ELSE <<>>)
        \o getSigners(parseItentityFiles(authCfg.Proxy.IdentityFiles),
                      authCfg.Proxy.Passphrase)

\* C23: the proxy's methods are one public-key method (agent signers,
\* then the signers of the proxy's identity files) when there is a signer,
\* followed by exactly one password method: the proxy's password when it
\* has one, else the default password as it is when the client is built
\* (the one typed at the sudo prompt included).
C23_ProxyAuthsEndWithOnePassword ==
    (aPc \in {"getAllHosts", "dispatch", "returned"} /\ authCfg.Proxy.Server # "") =>
        LET last == Password(IF authCfg.Proxy.Password # "" THEN authCfg.Proxy.Password
                             ELSE defaultPass)
        IN  proxyAuths = IF ProxySigners # <<>>
                         THEN <<PublicKeys(ProxySigners), last>>
                         ELSE <<last>>

\* a proxy without a password, with a valid identity file and a live agent,
\* in a run where the login password was typed at the sudo prompt
C23_Witness ==
    /\ aPc = "dispatch"
    /\ authCfg.Proxy.Server # ""
    /\ authCfg.Proxy.Password = ""
    /\ authCfg.agent = "live"
    /\ Len(loginPrompts) = 1
    /\ loginPrompts[1].at = "sudo"
    /\ proxyAuths = <<PublicKeys(<<"agent-key", "/home/u/id_ok">>), Password("typed")>>

\* C30: when the task opened a connection to the SSH agent, the connection
\* is closed when Start has returned.
C30_AgentClosedAtReturn ==
    aPc = "returned" => sshAgent # "open"

\* list mode did nothing but enumerate: no auth methods, no client, no
\* resolution for a run, no worker, no record and no summary
OnlyEnumerated ==
    /\ ~authAssembled
    /\ ~sshClient.built
    /\ ~resolved
    /\ workers = <<>>
    /\ sessions = {}
    /\ logged = <<>>
    /\ taskOutput.buf = <<>>
    /\ summaries = <<>>

\* C24: with hosts.list set BatchRun only enumerates the host aliases
\* (no auth methods, no client, no host contacted, no per-host record, no
\* summary), and Start returns.
C24_ListModeEnumeratesAndReturns ==
    /\ [](hostsList => OnlyEnumerated)
    /\ hostsList ~> (pcH = "returned")

\* C25: with a task timeout, no channel of the task is closed a second
\* time (a second close is the panic "close of closed channel").
C25_ChannelsClosedAtMostOnce ==
    taskTimeout > 0 => panicked # "close of closed channel"

\* the summary is out: in the buffer of taskOutput, received or logged
SummarySent == AllSummaries # {}

\* C26: BatchRun sends the summary only after it forwarded the last
\* per-host result of a closed result stream, and HandleOutput logs no
\* per-host record once it has logged the summary.
C26_SummaryAfterHostRecords ==
    /\ [](SummarySent =>
            /\ BatchRunLeft
            /\ ResultsClosed
            /\ sent = delivered
            /\ Len(delivered) = Len(allHosts))
    /\ [][summaries # <<>> => logged' = logged]_vars

\* two hosts were logged and then the summary
C26_Witness ==
    /\ Len(logged) = 2
    /\ Len(summaries) = 1
    /\ summaries[1].hostsSuccessCount + summaries[1].hostsFailureCount = 2

\* BatchRun has called the dispatcher or is on one of its return paths
\* (list mode, validation error, resolution error, normal completion)
BatchRunPastPreparation ==
    pcB \in {"recv", "send", "summary", "closeDetail", "closeTask", "done"}

\* C27: without a task timeout, in runs where the dispatcher's result
\* stream closes, Start returns once BatchRun has called the dispatcher or
\* taken a return path, and list mode and a validation error always get
\* there: the summary send does not block (taskOutput holds at most the one
\* summary), nothing panics, and both channels are closed by BatchRun on
\* every return path.
C27_StartReturnsWithoutTimeout ==
    /\ (taskTimeout = 0 /\ BatchRunPastPreparation) ~> (pcH = "returned")
    /\ (taskTimeout = 0 /\ (hostsList \/ validateArgs.err # Nil)) ~> (pcH = "returned")
    /\ [](taskTimeout = 0 =>
            /\ panicked = Nil
            /\ Len(taskOutput.buf) + Len(summaries) <= 1
            /\ pcH = "returned" =>
                    /\ detailOutput.closedBy = "BatchRun"
                    /\ taskOutput.closedBy = "BatchRun"
                    /\ pcB = "done")

\* Start returned after two hosts and the summary, without a timeout
C27_Witness ==
    /\ taskTimeout = 0
    /\ pcH = "returned"
    /\ Len(logged) = 2
    /\ Len(summaries) = 1

\* C28: when Start has returned, the BatchRun goroutine has finished (so
\* it cannot write the task error while or after the caller reads it).
C28_BatchRunFinishedAtReturn ==
    pcH = "returned" => pcB = "done"

\* C29: when the push command has removed its archives, no push operation
\* on a host is in flight any more.
C29_NoRemovalDuringUpload ==
    (cmdPc = "exit0" /\ disk = {}) =>
        \A w \in DOMAIN workers : workers[w].st # "running"

\* a list of names without a repeated name
NoDuplicates(l) == \A i, j \in 1..Len(l) : l[i] = l[j] => i = j

\* what ListHosts returned agrees with what getAllHosts returns for the same
\* inventory and positional arguments: both succeed or both fail, and on
\* success the list is the aliases of the hosts of the run, in their order
ListAgreesWithRun ==
    LET run == getAllHosts(call.inventory, call.args)
    IN  /\ (ret.err = Nil) <=> (run.err = Nil /\ run.exit = Nil)
        /\ ret.err = Nil =>
              /\ ret.names = AliasesOf(run.hosts)
              /\ NoDuplicates(ret.names)

\* C31: for the same inventory and positional arguments, ListHosts succeeds
\* exactly when getAllHosts succeeds, and then returns exactly the aliases of
\* the hosts getAllHosts returns, in the same order and without duplicates.
C31_ListAgreesWithRun ==
    (call.fn = "ListHosts" /\ ret.status # "none") => ListAgreesWithRun

\* the same agreement whenever the run resolves at least one host or fails
\* on a pattern or on the inventory file
C31_AgreesUnlessNoHosts ==
    (call.fn = "ListHosts" /\ ret.status # "none"
        /\ getAllHosts(call.inventory, call.args).err # helpErr
        /\ getAllHosts(call.inventory, call.args).exit = Nil) => ListAgreesWithRun

====
